---------------------------- MODULE Spec2Model ----------------------------
(***************************************************************************)
(* A model of git2-lfs: the pointer codec (src/src/pointer.rs), the clean /*)
(* smudge filter and the local object store (src/src/lfs.rs), and the      *)
(* transfer engine (src/src/remote/mod.rs, src/src/remote/reqwest.rs).     *)
(*                                                                         *)
(* Byte strings and texts are sequences of byte values 0..255; a text is   *)
(* the sequence of the ASCII codes of its characters.                      *)
(***************************************************************************)
EXTENDS Integers, Sequences, FiniteSets, TLC

(***************************************************************************)
(* Bounds of the model.                                                    *)
(***************************************************************************)
\* longest byte string handed to clean
MaxBlobLen == 1

(***************************************************************************)
(* Characters.                                                             *)
(***************************************************************************)
NL == 10
CR == 13
SLASH == 47
PLUS == 43
DIGIT_0 == 48
DIGIT_9 == 57
UPPER_A == 65
UPPER_F == 70
LOWER_A == 97
LOWER_F == 102

\* pointer.rs:15  POINTER_ROUGH_LEN = 120..220 (end exclusive)
POINTER_ROUGH_LEN_START == 120
POINTER_ROUGH_LEN_END == 220

\* pointer.rs:17-18
HASH_LEN == 32
HEX_LEN == HASH_LEN * 2

\* pointer.rs:20  "version https://git-lfs.github.com/spec/v1"
VERSION ==
  <<118, 101, 114, 115, 105, 111, 110, 32, 104, 116, 116, 112, 115, 58, 47,
    47, 103, 105, 116, 45, 108, 102, 115, 46, 103, 105, 116, 104, 117, 98,
    46, 99, 111, 109, 47, 115, 112, 101, 99, 47, 118, 49>>
\* pointer.rs:21  "oid sha256:"
OID_PREFIX == <<111, 105, 100, 32, 115, 104, 97, 50, 53, 54, 58>>
\* pointer.rs:22  "size "
SIZE_PREFIX == <<115, 105, 122, 101, 32>>

\* the literals write_pointer writes (pointer.rs:82, 83, 90)
WRITE_VERSION_LINE ==
  <<118, 101, 114, 115, 105, 111, 110, 32, 104, 116, 116, 112, 115, 58, 47,
    47, 103, 105, 116, 45, 108, 102, 115, 46, 103, 105, 116, 104, 117, 98,
    46, 99, 111, 109, 47, 115, 112, 101, 99, 47, 118, 49, 10>>
WRITE_OID_PREFIX == <<111, 105, 100, 32, 115, 104, 97, 50, 53, 54, 58>>
WRITE_SIZE_PREFIX == <<115, 105, 122, 101, 32>>

\* the decimal digits of usize::MAX = 2^64 - 1 on a 64-bit target
USIZE_MAX_DIGITS ==
  <<49, 56, 52, 52, 54, 55, 52, 52, 48, 55, 51, 55, 48, 57, 53, 53, 49, 54,
    49, 53>>

(***************************************************************************)
(* Results: Ok(v) / Err(e), as Rust's Result.                              *)
(***************************************************************************)
Ok(v) == [ok |-> TRUE, val |-> v]
Err(e) == [ok |-> FALSE, err |-> e]

StartsWith(s, prefix) ==
  /\ Len(s) >= Len(prefix)
  /\ SubSeq(s, 1, Len(prefix)) = prefix

Drop(s, n) == SubSeq(s, n + 1, Len(s))

(***************************************************************************)
(* SHA-256 (sha2::Sha256, used by from_blob_bytes and by the download).    *)
(* The digest primitive is abstracted to a 32-byte digest that is          *)
(* collision-free on the byte strings of the model: a                      *)
(* position-weighted sum h of the bytes, spread over 32 bytes (the first   *)
(* four bytes hold h).                                                     *)
(***************************************************************************)
ShaWeight(i) == ((i * i * 31 + i * 7) % 1009) + 1

RECURSIVE ShaSum(_, _, _)
ShaSum(bytes, lo, hi) ==
  IF lo > hi THEN 0
  ELSE IF lo = hi THEN (bytes[lo] + 1) * ShaWeight(lo)
  ELSE LET mid == (lo + hi) \div 2
       IN ShaSum(bytes, lo, mid) + ShaSum(bytes, mid + 1, hi)

Sha256(bytes) ==
  LET h == ShaSum(bytes, 1, Len(bytes))
  IN [i \in 1..32 |->
        CASE i = 1 -> h % 256
          [] i = 2 -> (h \div 256) % 256
          [] i = 3 -> (h \div 65536) % 256
          [] i = 4 -> (h \div 16777216) % 256
          [] OTHER -> (h + 31 * i) % 256]

(***************************************************************************)
(* hex::encode / hex::decode_to_slice                                      *)
(***************************************************************************)
HexDigit(n) == IF n < 10 THEN DIGIT_0 + n ELSE LOWER_A + (n - 10)

\* hex::encode(hash): two lowercase hex characters per byte (pointer.rs:68-70)
hex(hash) ==
  [i \in 1..(2 * Len(hash)) |->
     LET b == hash[(i + 1) \div 2]
     IN IF i % 2 = 1 THEN HexDigit(b \div 16) ELSE HexDigit(b % 16)]

IsHexChar(c) ==
  \/ (c >= DIGIT_0 /\ c <= DIGIT_9)
  \/ (c >= LOWER_A /\ c <= LOWER_F)
  \/ (c >= UPPER_A /\ c <= UPPER_F)

HexVal(c) ==
  IF c >= DIGIT_0 /\ c <= DIGIT_9 THEN c - DIGIT_0
  ELSE IF c >= LOWER_A /\ c <= LOWER_F THEN c - LOWER_A + 10
  ELSE c - UPPER_A + 10

\* hex::decode_to_slice(hex, &mut [0; 32]) (pointer.rs:175): both cases of
\* the letters are accepted; a character that is no hex digit is an error
HexDecode(text) ==
  IF Len(text) # HEX_LEN THEN Err("Hex")
  ELSE IF \E i \in 1..Len(text) : ~IsHexChar(text[i]) THEN Err("Hex")
  ELSE Ok([i \in 1..HASH_LEN |->
             16 * HexVal(text[2 * i - 1]) + HexVal(text[2 * i])])

(***************************************************************************)
(* usize <-> decimal text                                                  *)
(***************************************************************************)
RECURSIVE to_string_lsd_first(_)
\* a to_string that writes the least significant digit first
to_string_lsd_first(n) ==
  IF n < 10 THEN <<DIGIT_0 + n>>
  ELSE <<DIGIT_0 + (n % 10)>> \o to_string_lsd_first(n \div 10)

RECURSIVE to_string(_)
\* usize::to_string (pointer.rs:91)
to_string(n) ==
  IF n < 10 THEN <<DIGIT_0 + n>>
  ELSE Append(to_string(n \div 10), DIGIT_0 + (n % 10))

IsDigit(c) == c >= DIGIT_0 /\ c <= DIGIT_9

RECURSIVE StripZeros(_)
StripZeros(ds) ==
  IF Len(ds) > 1 /\ Head(ds) = DIGIT_0 THEN StripZeros(Tail(ds)) ELSE ds

RECURSIVE DigitsLess(_, _)
\* ds < es for two digit strings of the same length
DigitsLess(ds, es) ==
  IF ds = <<>> THEN FALSE
  ELSE IF Head(ds) # Head(es) THEN Head(ds) < Head(es)
  ELSE DigitsLess(Tail(ds), Tail(es))

RECURSIVE DigitsValue(_, _)
DigitsValue(ds, acc) ==
  IF ds = <<>> THEN acc
  ELSE DigitsValue(Tail(ds), acc * 10 + (Head(ds) - DIGIT_0))

\* str::parse::<usize>() (pointer.rs:170): an optional '+', then one or more
\* decimal digits; anything else, and a value above usize::MAX, is an error
ParseUsize(text) ==
  LET ds == IF text # <<>> /\ Head(text) = PLUS THEN Tail(text) ELSE text
      sig == StripZeros(ds)
  IN IF text = <<>> THEN Err("cannot parse integer from empty string")
     ELSE IF ds = <<>> \/ \E i \in 1..Len(ds) : ~IsDigit(ds[i])
       THEN Err("invalid digit found in string")
     ELSE IF \/ Len(sig) > Len(USIZE_MAX_DIGITS)
             \/ /\ Len(sig) = Len(USIZE_MAX_DIGITS)
                /\ DigitsLess(USIZE_MAX_DIGITS, sig)
       THEN Err("number too large to fit in target type")
     ELSE Ok(DigitsValue(sig, 0))

(***************************************************************************)
(* str::lines                                                              *)
(***************************************************************************)
\* the index of the first "\n" of s, 0 when there is none
FirstNL(s) ==
  LET nls == {i \in 1..Len(s) : s[i] = NL}
  IN IF nls = {} THEN 0 ELSE CHOOSE i \in nls : \A j \in nls : i <= j

RECURSIVE SplitInclusive(_)
\* the pieces of s, each ending with its "\n" (the last one may lack it)
SplitInclusive(s) ==
  IF s = <<>> THEN <<>>
  ELSE LET i == FirstNL(s)
       IN IF i = 0 THEN <<s>>
          ELSE <<SubSeq(s, 1, i)>> \o SplitInclusive(Drop(s, i))

\* a line without its "\n", and without the "\r" of a "\r\n"
StripLineEnd(l) ==
  IF l # <<>> /\ l[Len(l)] = NL
  THEN LET t == SubSeq(l, 1, Len(l) - 1)
       IN IF t # <<>> /\ t[Len(t)] = CR THEN SubSeq(t, 1, Len(t) - 1) ELSE t
  ELSE l

\* s.lines() (pointer.rs:138)
Lines(s) ==
  LET pieces == SplitInclusive(s)
  IN [i \in 1..Len(pieces) |-> StripLineEnd(pieces[i])]

(***************************************************************************)
(* Pointer (pointer.rs:24-28): [hash: 32 bytes, size: usize]               *)
(***************************************************************************)
\* Pointer::from_parts (pointer.rs:43-48)
from_parts(hash, size) == [hash |-> hash, size |-> size]

\* Pointer::from_blob_bytes (pointer.rs:50-62)
from_blob_bytes(bytes) ==
  LET val == Sha256(bytes)
  IN IF Len(val) # 32 THEN Err([kind |-> "InvalidHashLength", n |-> Len(val)])
     ELSE Ok([hash |-> val, size |-> Len(bytes)])

\* Pointer::path (pointer.rs:76-79): hex[..2] / hex[2..4] / hex
path(pointer) ==
  LET h == hex(pointer.hash)
  IN SubSeq(h, 1, 2) \o <<SLASH>> \o SubSeq(h, 3, 4) \o <<SLASH>> \o h

\* a write_pointer that leaves the size line out when the size is 0
write_pointer_skip_zero(pointer) ==
  WRITE_VERSION_LINE
    \o WRITE_OID_PREFIX \o hex(pointer.hash) \o <<NL>>
    \o (IF pointer.size = 0 THEN <<>>
        ELSE WRITE_SIZE_PREFIX \o to_string(pointer.size) \o <<NL>>)

\* Pointer::write_pointer (pointer.rs:81-97): what is written to the writer
write_pointer(pointer) ==
  WRITE_VERSION_LINE
    \o WRITE_OID_PREFIX \o hex(pointer.hash) \o <<NL>>
    \o WRITE_SIZE_PREFIX \o to_string(pointer.size) \o <<NL>>

\* "<empty line>" in an InvalidSpec error (pointer.rs:144, 149, 165)
ActualOf(line) == IF line = <<>> \/ line = <<NL>> THEN "<empty line>" ELSE line

\* impl FromStr for Pointer (pointer.rs:134-181)
from_str(s) ==
  LET lines == Lines(s)
      version == IF Len(lines) >= 1 THEN lines[1] ELSE <<>>
      oid == IF Len(lines) >= 2 THEN lines[2] ELSE <<>>
  IN IF version # VERSION
       THEN Err([kind |-> "InvalidSpec", expected |-> VERSION,
                 actual |-> ActualOf(version)])
     ELSE IF ~StartsWith(oid, OID_PREFIX)
       THEN Err([kind |-> "InvalidSpec", expected |-> OID_PREFIX,
                 actual |-> ActualOf(oid)])
     ELSE IF Len(oid) # HEX_LEN + Len(OID_PREFIX)
       THEN Err([kind |-> "InvalidHashLength",
                 n |-> Len(oid) - Len(OID_PREFIX)])
     ELSE
       LET hexText == SubSeq(oid, Len(OID_PREFIX) + 1, HEX_LEN + Len(OID_PREFIX))
           sizeLine == IF Len(lines) >= 3 THEN lines[3] ELSE <<>>
           noSize == Len(lines) < 3 \/ sizeLine = <<>> \/ sizeLine = <<NL>>
           size == IF noSize THEN Ok(0)
                   ELSE IF ~StartsWith(sizeLine, SIZE_PREFIX)
                     THEN Err([kind |-> "InvalidSpec", expected |-> SIZE_PREFIX,
                               actual |-> ActualOf(sizeLine)])
                   ELSE LET n == ParseUsize(Drop(sizeLine, Len(SIZE_PREFIX)))
                        IN IF n.ok THEN n
                           ELSE Err([kind |-> "InvalidSize", msg |-> n.err])
           hash == HexDecode(hexText)
       IN IF ~size.ok THEN size
          ELSE IF ~hash.ok THEN Err([kind |-> "Hex"])
          ELSE Ok([hash |-> hash.val, size |-> size.val])

\* str::from_utf8 on the bytes of the model: a byte below 128 is one
\* character; the model's other bytes never form a multi-byte sequence
Utf8Ok(bytes) == \A i \in 1..Len(bytes) : bytes[i] < 128

Min(a, b) == IF a < b THEN a ELSE b

\* Pointer::from_str_short (pointer.rs:116-127): Some(pointer) or None
from_str_short(bytes) ==
  LET text == SubSeq(bytes, 1, Min(Len(bytes), POINTER_ROUGH_LEN_END))
  IN IF Utf8Ok(text) THEN from_str(text) ELSE Err([kind |-> "None"])

\* Pointer::is_pointer (pointer.rs:129-131)
is_pointer(bytes) == from_str_short(bytes).ok

(***************************************************************************)
(* The byte strings of the model.                                          *)
(***************************************************************************)
BlobBytes == {0}

SeqsUpTo(S, n) == UNION {[1..k -> S] : k \in 0..n}

\* b"blob" (tests/lfs/mod.rs:53)
BlobText == <<98, 108, 111, 98>>

\* b"blob", and a byte string that is no UTF-8 text
TestBlobs == {BlobText, <<255>>}

\* what the working copy may hold
Blobs == SeqsUpTo(BlobBytes, MaxBlobLen) \cup TestBlobs

PointerOf(bytes) == from_blob_bytes(bytes).val

\* the canonical pointer text of a byte string
PointerText(bytes) == write_pointer(PointerOf(bytes))

(***************************************************************************)
(* The texts handed to the parser.                                         *)
(***************************************************************************)
RECURSIVE JoinLines(_, _, _)
\* the lines, each followed by eol, the last one by last
JoinLines(ls, eol, last) ==
  IF ls = <<>> THEN <<>>
  ELSE IF Len(ls) = 1 THEN ls[1] \o last
  ELSE ls[1] \o eol \o JoinLines(Tail(ls), eol, last)

\* the text with its hex letters in upper case
Upper(text) ==
  [i \in 1..Len(text) |->
     IF text[i] >= LOWER_A /\ text[i] <= LOWER_F
     THEN text[i] - LOWER_A + UPPER_A ELSE text[i]]

\* a hash whose hex has letters
ParseHash == [i \in 1..HASH_LEN |-> IF i % 2 = 0 THEN 10 ELSE 171]

\* first lines: the version line, one with a space before it, a blank one
ParseVersionLines == {VERSION, <<32>> \o VERSION, <<>>}

\* second lines: none, and an oid line with 64 lowercase or uppercase hex
\* characters, with 63 and 65 of them, with a "g" among them, with a space
\* before it
ParseOidLines ==
  { <<>>,
    <<OID_PREFIX \o hex(ParseHash)>>,
    <<OID_PREFIX \o Upper(hex(ParseHash))>>,
    <<OID_PREFIX \o SubSeq(hex(ParseHash), 1, HEX_LEN - 1)>>,
    <<OID_PREFIX \o hex(ParseHash) \o <<DIGIT_0>> >>,
    <<OID_PREFIX \o <<103>> \o SubSeq(hex(ParseHash), 2, HEX_LEN)>>,
    <<<<32>> \o OID_PREFIX \o hex(ParseHash)>> }

\* what follows the oid line: nothing, a blank line, "size 1", "size 10",
\* "size +1", "size -1", "size 01", "size ", "size x", " size 1", "length 1",
\* a size above usize::MAX, and a size line with a line after or before it
ParseSizeLines ==
  { <<>>,
    << <<>> >>,
    <<SIZE_PREFIX \o <<49>> >>,
    <<SIZE_PREFIX \o <<49, 48>> >>,
    <<SIZE_PREFIX \o <<PLUS, 49>> >>,
    <<SIZE_PREFIX \o <<45, 49>> >>,
    <<SIZE_PREFIX \o <<48, 49>> >>,
    <<SIZE_PREFIX>>,
    <<SIZE_PREFIX \o <<120>> >>,
    <<<<32>> \o SIZE_PREFIX \o <<49>> >>,
    <<<<108, 101, 110, 103, 116, 104, 32, 49>> >>,
    <<SIZE_PREFIX \o USIZE_MAX_DIGITS \o <<48>> >>,
    <<SIZE_PREFIX \o <<49>>, <<120>> >>,
    <<SIZE_PREFIX \o <<49>>, <<>> >>,
    << <<>>, SIZE_PREFIX \o <<49>> >> }

\* the texts parsed: the lines ended by "\n" or by "\r\n", the last line
\* with or without its end
ParseTexts ==
  {JoinLines(<<v>> \o o \o z, eol, last) :
     v \in ParseVersionLines, o \in ParseOidLines, z \in ParseSizeLines,
     eol \in {<<NL>>, <<CR, NL>>}, last \in {<<NL>>, <<CR, NL>>, <<>>}}

(***************************************************************************)
(* State.                                                                  *)
(***************************************************************************)
VARIABLES
  codec,    \* the pointer codec applied to one input:
            \*   [pc, pointer, text, parsed]
  store,    \* <repo>/lfs/objects: fan-out path -> contents of the file there
  filter,   \* the last filter call: [op, input, out, ret, skipped]
  callers,  \* store_object_if_not_exists calls under way in processes that
            \* share the object store: [pc, pointer, bytes, ret] each
  cleaned,  \* what clean has done: [bytes, text] for each byte string cleaned
            \* and the pointer text written for it, less those whose object
            \* file has been removed since
  commits,  \* the commits of the repository, parents before children:
            \*   [parents, tree] each
  ext,      \* the last RepoLfsExt call: [op, local, upstream, ret]
  config,   \* the LfsBuilder: [exts, max_file_size]
  checked,  \* the last Lfs::check call: [pc, path, metadata, ret]
  tree,     \* the entries of the HEAD tree as tree.walk hands them over
  call,     \* the LfsClient and its current pull or push
  workers,  \* the per-object futures of the call, by place in the response
  results,  \* the workers' results, in the order they finished
  trace     \* the requests sent and the progress events, in order

filterVars == <<store, filter, cleaned, callers>>
engineVars == <<tree, call, workers, results, trace>>
extVars == <<commits, ext, config, checked>>
vars ==
  <<codec, store, filter, cleaned, callers, commits, ext, config, checked,
    tree, call, workers, results, trace>>

NoPointer == [hash |-> <<>>, size |-> 0]

EmptyStore == [p \in {} |-> <<>>]

CodecIdle == codec = [pc |-> "idle", pointer |-> NoPointer, text |-> <<>>,
                      parsed |-> Err("none")]
\* a process that is not in store_object_if_not_exists
NoCaller == [pc |-> "idle", pointer |-> NoPointer, bytes |-> <<>>, ret |-> Ok("none")]

FilterIdle ==
  /\ filter = [op |-> "none", input |-> <<>>, out |-> <<>>, ret |-> Ok(FALSE),
               skipped |-> FALSE]
  /\ cleaned = {}
  /\ callers = <<NoCaller, NoCaller>>

\* Option<T>
None == <<>>
Some(v) == <<v>>

\* LfsClient::new (remote/mod.rs:99-101), no call made yet
NoCall ==
  [op |-> "none", pc |-> "idle", pointers |-> <<>>, limit |-> 1,
   progress |-> FALSE, ret |-> None, batch_status |-> None, response |-> <<>>,
   handled_objects |-> 0, handled_bytes |-> 0]

\* no RepoLfsExt call made
NoExt == [op |-> "none", local |-> 0, upstream |-> 0, ret |-> Ok(<<>>)]

\* a repository without commits
\* LfsBuilder::default() (lfs.rs:18-22)
DefaultBuilder == [exts |-> None, max_file_size |-> None]

\* no Lfs::check call made
NoCheck == [pc |-> "idle", path |-> <<>>, metadata |-> None, ret |-> Ok(FALSE)]

ExtIdle ==
  /\ commits = <<>>
  /\ ext = NoExt
  /\ config = DefaultBuilder
  /\ checked = NoCheck

EngineIdle ==
  /\ tree = <<>>
  /\ call = NoCall
  /\ workers = <<>>
  /\ results = <<>>
  /\ trace = <<>>

(***************************************************************************)
(* The codec on its own: emit a pointer, parse the text.                   *)
(***************************************************************************)
CodecHashes ==
  { [i \in 1..HASH_LEN |-> 0],
    [i \in 1..HASH_LEN |-> 255],
    [i \in 1..HASH_LEN |-> (i * 37 + 9) % 256],
    [i \in 1..HASH_LEN |-> IF i % 2 = 0 THEN 10 ELSE 171] }

CodecSizes == {0, 1, 9, 10, 99, 100, 4096, 1000000, 2147483647}

CodecPointers ==
  {from_parts(h, n) : h \in CodecHashes, n \in CodecSizes}
    \cup {PointerOf(b) : b \in Blobs}

CodecInit ==
  /\ \E p \in CodecPointers :
       codec = [pc |-> "start", pointer |-> p, text |-> <<>>,
                parsed |-> Err("none")]
  /\ store = EmptyStore
  /\ FilterIdle
  /\ EngineIdle
  /\ ExtIdle

\* pointer.write_pointer(&mut data)
Emit ==
  /\ codec.pc = "start"
  /\ codec' = [codec EXCEPT !.pc = "emitted",
                            !.text = write_pointer(codec.pointer)]
  /\ UNCHANGED <<filterVars, engineVars, extVars>>

\* Pointer::from_str(text)
Parse ==
  /\ codec.pc = "emitted"
  /\ codec' = [codec EXCEPT !.pc = "parsed", !.parsed = from_str(codec.text)]
  /\ UNCHANGED <<filterVars, engineVars, extVars>>

CodecNext == Emit \/ Parse

SpecCodec == CodecInit /\ [][CodecNext]_vars

\* Pointer::from_str on a text that did not come from write_pointer
\* (tests/pointer/parse.rs)
ParseInit ==
  /\ \E t \in ParseTexts :
       codec = [pc |-> "emitted", pointer |-> NoPointer, text |-> t,
                parsed |-> Err("none")]
  /\ store = EmptyStore
  /\ FilterIdle
  /\ EngineIdle
  /\ ExtIdle

ParseNext == Parse

SpecParse == ParseInit /\ [][ParseNext]_vars

(***************************************************************************)
(* Pointers of every size a usize holds. The integers of the checker are   *)
(* narrower than usize, so a size is kept here as four 16-bit limbs, least *)
(* significant first.                                                      *)
(***************************************************************************)
LIMB == 256 * 256

\* 10 * n + d on limbs, d a decimal digit
MulAdd10(n, d) ==
  LET c1 == n[1] * 10 + d
      c2 == n[2] * 10 + c1 \div LIMB
      c3 == n[3] * 10 + c2 \div LIMB
      c4 == n[4] * 10 + c3 \div LIMB
  IN <<c1 % LIMB, c2 % LIMB, c3 % LIMB, c4 % LIMB>>

RECURSIVE SizeOfDigits(_, _)
\* the size a decimal numeral stands for
SizeOfDigits(ds, acc) ==
  IF ds = <<>> THEN acc
  ELSE SizeOfDigits(Tail(ds), MulAdd10(acc, Head(ds) - DIGIT_0))

\* n divided by 10 on limbs: [q, r]
DivMod10(n) ==
  LET c4 == n[4]
      c3 == (c4 % 10) * LIMB + n[3]
      c2 == (c3 % 10) * LIMB + n[2]
      c1 == (c2 % 10) * LIMB + n[1]
  IN [q |-> <<c1 \div 10, c2 \div 10, c3 \div 10, c4 \div 10>>, r |-> c1 % 10]

RECURSIVE to_string_u64(_)
\* usize::to_string (pointer.rs:91) on limbs
to_string_u64(n) ==
  LET d == DivMod10(n)
  IN IF d.q = <<0, 0, 0, 0>> THEN <<DIGIT_0 + d.r>>
     ELSE Append(to_string_u64(d.q), DIGIT_0 + d.r)

\* a write_pointer that leaves the version line out
write_pointer_u64_bare(pointer) ==
  WRITE_OID_PREFIX \o hex(pointer.hash) \o <<NL>>
    \o WRITE_SIZE_PREFIX \o to_string_u64(pointer.size) \o <<NL>>

\* Pointer::write_pointer (pointer.rs:81-97) for a size on limbs
write_pointer_u64(pointer) ==
  WRITE_VERSION_LINE
    \o WRITE_OID_PREFIX \o hex(pointer.hash) \o <<NL>>
    \o WRITE_SIZE_PREFIX \o to_string_u64(pointer.size) \o <<NL>>

\* the sizes of the model: 0, for each number of digits up to 20 the least
\* and the greatest size with that many digits, and usize::MAX
WideNumerals ==
  {<<DIGIT_0>>, USIZE_MAX_DIGITS}
    \cup {<<DIGIT_0 + 1>> \o [i \in 1..(d - 1) |-> DIGIT_0] : d \in 1..20}
    \cup {[i \in 1..d |-> DIGIT_9] : d \in 1..19}

WideSizes == {SizeOfDigits(ds, <<0, 0, 0, 0>>) : ds \in WideNumerals}

WideInit ==
  /\ \E h \in CodecHashes, n \in WideSizes :
       codec = [pc |-> "start", pointer |-> from_parts(h, n), text |-> <<>>,
                parsed |-> Err("none")]
  /\ store = EmptyStore
  /\ FilterIdle
  /\ EngineIdle
  /\ ExtIdle

\* pointer.write_pointer(&mut data)
EmitWide ==
  /\ codec.pc = "start"
  /\ codec' = [codec EXCEPT !.pc = "emitted",
                            !.text = write_pointer_u64(codec.pointer)]
  /\ UNCHANGED <<filterVars, engineVars, extVars>>

\* what the readers do with the length of a blob that holds the text: the
\* test of find_lfs_objects_to_push (ext.rs:134) and the cut of
\* from_str_short (pointer.rs:116)
Measure ==
  /\ codec.pc = "emitted"
  /\ codec' = [codec EXCEPT
                 !.pc = "measured",
                 !.parsed = [contains |-> /\ Len(codec.text) >= POINTER_ROUGH_LEN_START
                                          /\ Len(codec.text) < POINTER_ROUGH_LEN_END,
                             short |-> SubSeq(codec.text, 1,
                                              Min(Len(codec.text),
                                                  POINTER_ROUGH_LEN_END))]]
  /\ UNCHANGED <<filterVars, engineVars, extVars>>

WideNext == EmitWide \/ Measure

SpecWide == WideInit /\ [][WideNext]_vars

(***************************************************************************)
(* The object store and the filter (src/src/lfs.rs).                       *)
(***************************************************************************)
PathExists(p) == p \in DOMAIN store

\* a store that keeps the newest file only
WithFile_only(st, p, bytes) == [q \in {p} |-> bytes]

\* the store with file p holding bytes: File::options().create_new(true)
\* .write(true).open(p), then write_all(bytes) (pointer.rs:111-112)
WithFile(st, p, bytes) ==
  [q \in DOMAIN st \cup {p} |-> IF q = p THEN bytes ELSE st[q]]

WithoutFile(st, p) == [q \in DOMAIN st \ {p} |-> st[q]]

\* Pointer::write_blob_bytes (pointer.rs:105-114): create_dir_all, then open
\* with create_new (fails when the file exists), then write all the bytes
write_blob_bytes(st, pointer, bytes) ==
  IF path(pointer) \in DOMAIN st THEN [res |-> Err("Io:AlreadyExists"), store |-> st]
  ELSE [res |-> Ok("unit"), store |-> WithFile(st, path(pointer), bytes)]

\* a store_object_if_not_exists that writes no file
store_object_never(st, pointer, bytes) ==
  [res |-> Ok("unit"), store |-> st, skipped |-> FALSE]

\* a store_object_if_not_exists that does not look whether the file exists
store_object_unchecked(st, pointer, bytes) ==
  LET written == write_blob_bytes(st, pointer, bytes)
  IN [res |-> written.res, store |-> written.store, skipped |-> FALSE]

\* Lfs::store_object_if_not_exists (lfs.rs:66-76); skipped: it logged
\* "object already exists, skipping"
store_object_if_not_exists(st, pointer, bytes) ==
  IF path(pointer) \in DOMAIN st
  THEN [res |-> Ok("unit"), store |-> st, skipped |-> TRUE]
  ELSE LET written == write_blob_bytes(st, pointer, bytes)
       IN [res |-> written.res, store |-> written.store, skipped |-> FALSE]

\* a load_object without the exists() check: File::open fails
load_object_unchecked(st, pointer) ==
  IF path(pointer) \notin DOMAIN st
  THEN [ret |-> Err("Io:NotFound"), out |-> <<>>]
  ELSE [ret |-> Ok(TRUE), out |-> st[path(pointer)]]

\* Lfs::load_object (lfs.rs:78-93): [ret, out]
load_object(st, pointer) ==
  IF path(pointer) \notin DOMAIN st THEN [ret |-> Ok(FALSE), out |-> <<>>]
  ELSE [ret |-> Ok(TRUE), out |-> st[path(pointer)]]

\* Lfs::clean (lfs.rs:49-55), the whole call
Cleaning(input) ==
  LET pointer == from_blob_bytes(input)
      stored == store_object_if_not_exists(store, pointer.val, input)
  IN IF ~pointer.ok
       THEN /\ filter' = [op |-> "clean", input |-> input, out |-> <<>>,
                          ret |-> pointer, skipped |-> FALSE]
            /\ UNCHANGED <<store, cleaned>>
     ELSE IF ~stored.res.ok
       THEN /\ filter' = [op |-> "clean", input |-> input, out |-> <<>>,
                          ret |-> stored.res, skipped |-> stored.skipped]
            /\ store' = stored.store
            /\ UNCHANGED cleaned
     ELSE /\ filter' = [op |-> "clean", input |-> input,
                        out |-> write_pointer(pointer.val), ret |-> Ok(TRUE),
                        skipped |-> stored.skipped]
          /\ store' = stored.store
          /\ cleaned' = cleaned \cup
               {[bytes |-> input, text |-> write_pointer(pointer.val)]}

\* the filter is applied in clean mode to a file of the working copy
Clean(input) ==
  /\ Cleaning(input)
  /\ UNCHANGED <<codec, callers, commits, ext, config, checked, engineVars>>

\* Lfs::smudge (lfs.rs:57-64), the whole call
Smudge(input) ==
  LET pointer == from_str_short(input)
      loaded == load_object(store, pointer.val)
  IN /\ IF ~pointer.ok
          THEN filter' = [op |-> "smudge", input |-> input, out |-> <<>>,
                          ret |-> Ok(FALSE), skipped |-> FALSE]
        ELSE filter' = [op |-> "smudge", input |-> input, out |-> loaded.out,
                        ret |-> loaded.ret, skipped |-> FALSE]
     /\ UNCHANGED <<codec, callers, commits, ext, config, checked, store, cleaned, engineVars>>

\* the user deletes one object file (tests/lfs/mod.rs:238 removes them all)
RemoveObject(p) ==
  /\ p \in DOMAIN store
  /\ store' = WithoutFile(store, p)
  /\ cleaned' = {c \in cleaned : path(PointerOf(c.bytes)) # p}
  /\ filter' = [op |-> "remove", input |-> p, out |-> <<>>, ret |-> Ok(FALSE),
                skipped |-> FALSE]
  /\ UNCHANGED <<codec, callers, commits, ext, config, checked, engineVars>>

\* what the host may hand to smudge: a canonical pointer, its two-line form
\* (no size line), or bytes that are no pointer
TwoLineText(bytes) ==
  WRITE_VERSION_LINE \o WRITE_OID_PREFIX \o hex(PointerOf(bytes).hash) \o <<NL>>

SmudgeInputs ==
  Blobs \cup {PointerText(b) : b \in Blobs} \cup {TwoLineText(b) : b \in Blobs}

FilterInit ==
  CodecIdle /\ store = EmptyStore /\ FilterIdle /\ EngineIdle /\ ExtIdle

FilterNext ==
  \/ \E b \in Blobs : Clean(b)
  \/ \E t \in SmudgeInputs : Smudge(t)
  \/ \E p \in DOMAIN store : RemoveObject(p)

SpecFilter == FilterInit /\ [][FilterNext]_vars

\* what the working copy can hold when a file is added again after a
\* checkout: the contents themselves, or the pointer text that a smudge
\* which found no object left in their place
RecleanInputs == TestBlobs \cup {PointerText(b) : b \in TestBlobs}

RecleanInit == FilterInit

RecleanNext ==
  \/ \E b \in RecleanInputs : Clean(b)
  \/ \E t \in RecleanInputs : Smudge(t)
  \/ \E p \in DOMAIN store : RemoveObject(p)

\* clean and smudge of files that may hold a pointer text
SpecReclean == RecleanInit /\ [][RecleanNext]_vars

(***************************************************************************)
(* store_object_if_not_exists (lfs.rs:66-76) and write_blob_bytes          *)
(* (pointer.rs:105-114) taken apart into their file system calls, run by   *)
(* two processes (two filter runs of the host VCS) on one object store.    *)
(***************************************************************************)
\* process c enters store_object_if_not_exists(pointer, bytes), as clean does
\* with the pointer of its input (lfs.rs:50-51)
StoreEnter(c, bytes) ==
  /\ callers[c].pc = "idle"
  /\ callers' = [callers EXCEPT ![c] = [pc |-> "exists",
                                        pointer |-> PointerOf(bytes),
                                        bytes |-> bytes, ret |-> Ok("none")]]
  /\ UNCHANGED <<codec, store, filter, cleaned, engineVars, extVars>>

\* if path.exists() { return Ok(()) } (lfs.rs:69-72)
StoreExists(c) ==
  /\ callers[c].pc = "exists"
  /\ callers' = [callers EXCEPT
                   ![c] = IF PathExists(path(callers[c].pointer))
                          THEN [@ EXCEPT !.pc = "done", !.ret = Ok("skipped")]
                          ELSE [@ EXCEPT !.pc = "open"]]
  /\ UNCHANGED <<codec, store, filter, cleaned, engineVars, extVars>>

\* File::options().create_new(true).write(true).open(path)? (pointer.rs:111)
StoreOpen(c) ==
  /\ callers[c].pc = "open"
  /\ LET p == path(callers[c].pointer)
     IN IF PathExists(p)
        THEN /\ callers' = [callers EXCEPT
                              ![c] = [@ EXCEPT !.pc = "done",
                                               !.ret = Err("Io:AlreadyExists")]]
             /\ UNCHANGED store
        ELSE /\ callers' = [callers EXCEPT ![c] = [@ EXCEPT !.pc = "write"]]
             /\ store' = WithFile(store, p, <<>>)
  /\ UNCHANGED <<codec, filter, cleaned, engineVars, extVars>>

\* file.write_all(bytes)? and the return (pointer.rs:112-113, lfs.rs:74-75)
StoreWrite(c) ==
  /\ callers[c].pc = "write"
  /\ callers' = [callers EXCEPT ![c] = [@ EXCEPT !.pc = "done",
                                                 !.ret = Ok("written")]]
  /\ store' = WithFile(store, path(callers[c].pointer), callers[c].bytes)
  /\ UNCHANGED <<codec, filter, cleaned, engineVars, extVars>>

\* the process has its result and leaves
StoreLeave(c) ==
  /\ callers[c].pc = "done"
  /\ callers' = [callers EXCEPT ![c] = NoCaller]
  /\ UNCHANGED <<codec, store, filter, cleaned, engineVars, extVars>>

StoreInit ==
  CodecIdle /\ store = EmptyStore /\ FilterIdle /\ EngineIdle /\ ExtIdle

StoreNext ==
  \/ \E c \in 1..2, b \in Blobs : StoreEnter(c, b)
  \/ \E c \in 1..2 : StoreExists(c)
  \/ \E c \in 1..2 : StoreOpen(c)
  \/ \E c \in 1..2 : StoreWrite(c)
  \/ \E c \in 1..2 : StoreLeave(c)

SpecStore == StoreInit /\ [][StoreNext]_vars

(***************************************************************************)
(* The transfer engine (src/src/remote/mod.rs) over the reqwest client     *)
(* (src/src/remote/reqwest.rs).  Futures run on one thread: a step of a     *)
(* worker is the code between two awaits (request sent, response or body   *)
(* chunk received).                                                        *)
(***************************************************************************)
\* longest pointer list handed to pull / push, and longest tree
MaxPointers == 2
\* largest concurrency_limit
MaxLimit == 2

\* the objects the remote holds
RemoteBlobs == {<<0>>, <<0, 255>>}

\* a body whose hash is that of no object
WrongBody == <<255>>

\* MEDIA_TYPE (remote/mod.rs:21)
MEDIA_TYPE == "application/vnd.git-lfs+json"

RemoteError(kind, msg) == [kind |-> kind, msg |-> msg]

\* an or_err that hands every failure to or_else
or_err_plain(status, body, or_else) ==
  IF status >= 200 /\ status <= 299 THEN Ok("response")
  ELSE Err(RemoteError(or_else, <<status, " - ", body>>))

\* ReqwestExt::or_err (remote/reqwest.rs:46-68)
or_err(status, body, or_else) ==
  IF status >= 200 /\ status <= 299 THEN Ok("response")
  ELSE IF status = 403 \/ status = 401 THEN Err(RemoteError("AccessDenied", <<>>))
  ELSE IF status = 404 THEN Err(RemoteError("NotFound", <<>>))
  ELSE Err(RemoteError(or_else, <<status, " - ", body>>))

\* the statuses the batch endpoint answers with
Statuses == {200, 401, 403, 404, 500}

\* the statuses the transfer endpoints answer with
TransferStatuses == {200, 500}

\* a request that names each pointer once, whatever the list repeats
BatchObjects_once(pointers) ==
  LET keep == {k \in DOMAIN pointers : \A j \in 1..(k - 1) : pointers[j] # pointers[k]}
  IN [n \in 1..Cardinality(keep) |->
        LET k == CHOOSE k \in keep : Cardinality({j \in keep : j < k}) = n - 1
        IN [oid |-> hex(pointers[k].hash), size |-> pointers[k].size]]

\* BatchRequest.objects (remote/mod.rs:119)
BatchObjects(pointers) ==
  [i \in 1..Len(pointers) |->
     [oid |-> hex(pointers[i].hash), size |-> pointers[i].size]]

\* BatchResponseObject (remote/dto.rs:29-36) for a pointer: what the server
\* offers for it
ResponseObject(pointer, shape) ==
  [oid |-> hex(pointer.hash),
   size |-> pointer.size,
   error |-> IF shape \in {"error", "error_actions"}
             THEN Some([code |-> 404, message |-> "Object does not exist"])
             ELSE None,
   actions |-> IF shape \in {"error", "noactions"} THEN None
               ELSE Some([download |-> IF shape \in {"download", "error_actions"}
                                       THEN Some("download.href") ELSE None,
                          upload |-> IF shape \in {"upload", "upload_verify",
                                                   "error_actions"}
                                     THEN Some("upload.href") ELSE None,
                          verify |-> IF shape \in {"verify", "upload_verify",
                                                   "error_actions"}
                                     THEN Some("verify.href") ELSE None])]

DownloadShapes == {"error", "noactions", "download", "upload"}
UploadShapes == {"error", "noactions", "upload", "upload_verify", "verify"}

\* an object the request did not name
AlienPointer == PointerOf(WrongBody)

\* the answers of the batch endpoint to a request for these pointers: one
\* object per pointer, in order, or one object that was not asked for, or
\* an object that carries an error beside its actions and after it one that
\* was not asked for
ResponsesFor(pointers, shapes, alienShape) ==
  {[i \in 1..Len(pointers) |-> ResponseObject(pointers[i], sh[i])] :
     sh \in [1..Len(pointers) -> shapes]}
    \cup {<<ResponseObject(AlienPointer, alienShape)>>}
    \cup {<<ResponseObject(pointers[1], "error_actions"),
            ResponseObject(AlienPointer, alienShape)>>}

RECURSIVE SumSizes(_, _)
\* response.objects.iter().map(|o| o.size).sum() (remote/mod.rs:150)
SumSizes(objects, k) ==
  IF k = 0 THEN 0 ELSE SumSizes(objects, k - 1) + objects[k].size

\* a lookup that settles for the first pointer when none matches
FindPointer_first(pointers, oid) ==
  LET hits == {k \in 1..Len(pointers) : hex(pointers[k].hash) = oid}
  IN Some(pointers[IF hits = {} THEN 1
                   ELSE CHOOSE k \in hits : \A j \in hits : k <= j])

\* pointers.iter().find(|p| p.hex() == object.oid) (remote/mod.rs:180)
FindPointer(pointers, oid) ==
  LET hits == {k \in 1..Len(pointers) : hex(pointers[k].hash) = oid}
  IN IF hits = {} THEN None
     ELSE Some(pointers[CHOOSE k \in hits : \A j \in hits : k <= j])

\* a tree entry as the walk hands it to the closure: its kind ("blob",
\* "tree" for a subdirectory, "commit" for a submodule), the directory it is
\* in, and for a blob its contents, None when the object database lacks it
TreeEntry(kind, dir, blob) == [kind |-> kind, dir |-> dir, blob |-> blob]

BlobEntry(dir, content) == TreeEntry("blob", dir, Some(content))

RECURSIVE TreeMissingFrom(_, _, _)
\* the closure of tree.walk (ext.rs:69-102) on the entries from the i-th on
TreeMissingFrom(t, st, i) ==
  IF i > Len(t) THEN <<>>
  ELSE LET entry == t[i]
           p == IF entry.kind = "blob" /\ entry.blob # None
                THEN from_str_short(entry.blob[1])
                ELSE Err([kind |-> "None"])
       IN (IF p.ok /\ path(p.val) \notin DOMAIN st THEN <<p.val>> ELSE <<>>)
            \o TreeMissingFrom(t, st, i + 1)

\* a find_tree_missing_lfs_objects that reports each pointer once
find_tree_missing_distinct(t, st) ==
  LET r == TreeMissingFrom(t, st, 1)
      keep == {k \in DOMAIN r : \A j \in 1..(k - 1) : r[j] # r[k]}
  IN [n \in 1..Cardinality(keep) |->
        r[CHOOSE k \in keep : Cardinality({j \in keep : j < k}) = n - 1]]

\* RepoLfsExt::find_tree_missing_lfs_objects (ext.rs:66-105)
find_tree_missing_lfs_objects(t, st) == TreeMissingFrom(t, st, 1)

\* a future of the call that has not been polled yet
QueuedWorker ==
  [pc |-> "queued", n |-> 0, attempt |-> 0, pointer |-> None, path |-> <<>>,
   linked |-> FALSE, remaining |-> <<>>, received |-> <<>>,
   handled_bytes |-> 0, log |-> <<>>, result |-> None]

\* a count that sees no future in flight
InFlight_none == Cardinality({j \in DOMAIN workers : FALSE})

\* a count that always stands at the limit: no future is ever polled
InFlight_full == call.limit + Cardinality({j \in DOMAIN workers : FALSE})

\* futures polled and not finished: buffer_unordered(concurrency_limit)
InFlight == Cardinality({j \in DOMAIN workers : workers[j].pc \notin {"queued", "done"}})

\* the file at p is unlinked: a worker that holds it open writes on, unseen
Unlink(ws, p) ==
  [j \in DOMAIN ws |->
     IF ws[j].path = p THEN [ws[j] EXCEPT !.linked = FALSE] ELSE ws[j]]

\* the future returns res
Finish(ws, i, res) ==
  [ws EXCEPT ![i] = [@ EXCEPT !.pc = "done", !.result = Some(res)]]

\* drop(buf) (remote/mod.rs:198): the BufWriter writes out what it holds
Flushed(st, w) ==
  IF w.linked /\ w.path \in DOMAIN st THEN WithFile(st, w.path, w.received)
  ELSE st

\* a retry loop that goes round a fourth time
DownloadAttempt_four(st, ws, i) ==
  LET w == ws[i]
  IN IF w.attempt < 4
     THEN [store |-> WithFile(st, w.path, <<>>),
           workers |-> [Unlink(ws, w.path) EXCEPT
                          ![i] = [@ EXCEPT
                                    !.pc = "get", !.linked = TRUE,
                                    !.remaining = <<>>, !.received = <<>>,
                                    !.log = Append(@, [kind |-> "GET",
                                                       href |-> "download.href",
                                                       user_agent |-> TRUE])]]]
     ELSE [store |-> st, workers |-> Finish(ws, i, Ok("unit"))]

\* one turn of the retry loop up to the await of the GET (remote/mod.rs:
\* 188-197), or the end of the loop and Ok(()) (remote/mod.rs:219-221)
DownloadAttempt(st, ws, i) ==
  LET w == ws[i]
  IN IF w.attempt < 3
     THEN [store |-> WithFile(st, w.path, <<>>),
           workers |-> [Unlink(ws, w.path) EXCEPT
                          ![i] = [@ EXCEPT
                                    !.pc = "get", !.linked = TRUE,
                                    !.remaining = <<>>, !.received = <<>>,
                                    !.log = Append(@, [kind |-> "GET",
                                                       href |-> "download.href",
                                                       user_agent |-> TRUE])]]]
     ELSE [store |-> st, workers |-> Finish(ws, i, Ok("unit"))]

\* the attempt failed with e (remote/mod.rs:210-216): log it, count it,
\* remove the file (an error when it is not there), sleep, and go round again
DownloadFailed(st, ws, i, e) ==
  LET w == ws[i]
      ws1 == [ws EXCEPT ![i] = [@ EXCEPT
                                  !.attempt = @ + 1,
                                  !.log = Append(@, [kind |-> "failed",
                                                     error |-> e.kind])]]
  IN IF w.path \notin DOMAIN st
     THEN [store |-> st,
           workers |-> Finish(ws1, i, Err(RemoteError("Io", <<"NotFound">>)))]
     ELSE DownloadAttempt(WithoutFile(st, w.path), Unlink(ws1, w.path), i)

\* the body has ended (remote/reqwest.rs:127-129, remote/mod.rs:198-218)
DownloadEnded(st, ws, i) ==
  LET w == ws[i]
      p == from_parts(Sha256(w.received), Len(w.received))
      st1 == Flushed(st, w)
  IN IF p.hash # w.pointer[1].hash
     THEN IF w.path \in DOMAIN st1
          THEN DownloadFailed(WithoutFile(st1, w.path), Unlink(ws, w.path), i,
                              RemoteError("ChecksumMismatch", <<>>))
          ELSE DownloadFailed(st1, ws, i, RemoteError("Io", <<"NotFound">>))
     ELSE [store |-> st1, workers |-> Finish(ws, i, Ok("unit"))]

\* what one step leaves behind it
Took(step, i) ==
  \E s \in {step} :
    /\ store' = s.store
    /\ workers' = s.workers
    /\ results' = IF s.workers[i].pc = "done"
                  THEN Append(results, s.workers[i].result[1])
                  ELSE results

\* the pointer lists and trees of the model
EnginePointers == {PointerOf(b) : b \in RemoteBlobs}
PointerLists == SeqsUpTo(EnginePointers, MaxPointers)
TreeBlobs == {PointerText(b) : b \in RemoteBlobs} \cup {BlobText}
Trees == SeqsUpTo({BlobEntry("", c) : c \in TreeBlobs}, MaxPointers) \ {<<>>}

\* the object stores a call can start from: objects cleaned or pulled before
ValidStores ==
  {[p \in {path(PointerOf(b)) : b \in S} |->
      CHOOSE b \in S : path(PointerOf(b)) = p] : S \in SUBSET RemoteBlobs}

\* LfsClient::pull / push up to the await of the batch request (remote/mod.rs:
\* 111-123, 128-140); limit and progress are the client's concurrency_limit
\* and whether it has an on_progress callback
StartCall(op, operation, pointers, limit, progress) ==
  /\ call.pc = "idle"
  /\ workers' = <<>>
  /\ results' = <<>>
  /\ IF pointers = <<>>
     THEN /\ call' = [NoCall EXCEPT !.op = op, !.pc = "done",
                                    !.limit = limit, !.progress = progress,
                                    !.ret = Some(Ok("unit"))]
          /\ trace' = <<>>
     ELSE /\ call' = [NoCall EXCEPT !.op = op, !.pc = "batch",
                                    !.pointers = pointers,
                                    !.limit = limit, !.progress = progress]
          /\ trace' = <<[kind |-> "batch", operation |-> operation,
                         transfers |-> <<"basic">>,
                         objects |-> BatchObjects(pointers),
                         hash_algo |-> Some("sha256"),
                         user_agent |-> TRUE,
                         accept |-> Some(MEDIA_TYPE),
                         content_type |-> Some(MEDIA_TYPE)]>>
  /\ UNCHANGED <<codec, callers, commits, ext, config, checked, store, filter, cleaned>>

\* pull of an arbitrary pointer list
Pull ==
  \E pointers \in PointerLists, limit \in 1..MaxLimit, progress \in BOOLEAN :
    /\ tree' = <<>>
    /\ StartCall("pull", "download", pointers, limit, progress)

\* pull(find_tree_missing_lfs_objects(tree)) (tests/lfs/pull.rs:56-92)
PullTree ==
  \E t \in Trees, limit \in 1..MaxLimit, progress \in BOOLEAN :
    /\ tree' = t
    /\ StartCall("pull", "download",
                 find_tree_missing_lfs_objects(t, store), limit, progress)

\* the answer to the batch request (remote/reqwest.rs:73-106) and, for a
\* usable answer, download_objects up to the first poll of the stream
\* (remote/mod.rs:145-155, 224)
BatchReply(shapes, alienShape) ==
  /\ call.pc = "batch"
  /\ \E status \in Statuses :
       LET r == or_err(status, "body", "Batch")
       IN IF ~r.ok
          THEN /\ call' = [call EXCEPT !.pc = "done", !.ret = Some(r),
                                        !.batch_status = Some(status)]
               /\ workers' = <<>>
          ELSE \E objects \in ResponsesFor(call.pointers, shapes, alienShape)
                                \cup {<<>>} :
                 IF objects = <<>>
                 THEN /\ call' = [call EXCEPT
                                    !.pc = "done",
                                    !.batch_status = Some(status),
                                    !.ret = Some(Err(RemoteError("EmptyResponse", <<>>)))]
                      /\ workers' = <<>>
                 ELSE /\ call' = [call EXCEPT !.pc = "workers",
                                              !.batch_status = Some(status),
                                              !.response = objects]
                      /\ workers' = [i \in 1..Len(objects) |-> QueuedWorker]
  /\ UNCHANGED <<codec, callers, commits, ext, config, checked, store, filter, cleaned, tree, results, trace>>

PullBatchReply ==
  /\ call.op = "pull"
  /\ BatchReply(DownloadShapes, "download")

\* a download worker that reports its object before it looks for the action
DownloadEmits_early(object, progress) ==
  object.error = None /\ object.actions # None /\ progress

\* the download worker reaches on_progress (remote/mod.rs:157-178): the
\* object carries no error, has a download action, and a callback is set
DownloadEmits(object, progress) ==
  /\ object.error = None
  /\ object.actions # None
  /\ object.actions[1].download # None
  /\ progress

\* the first poll of the future of object i (remote/mod.rs:155-197): futures
\* are polled in the order of the response, at most concurrency_limit of
\* them unfinished at a time
StartDownload(i) ==
  /\ call.op = "pull" /\ call.pc = "workers"
  /\ i \in DOMAIN workers /\ workers[i].pc = "queued"
  /\ \A j \in 1..(i - 1) : workers[j].pc # "queued"
  /\ InFlight < call.limit
  /\ \E found \in {FindPointer(call.pointers, call.response[i].oid)} :
     LET object == call.response[i]
         n == call.handled_objects + 1
         emits == DownloadEmits(object, call.progress)
         event == [kind |-> "event", phase |-> "Download",
                   total_objects |-> Len(call.response),
                   total_bytes |-> SumSizes(call.response, Len(call.response)),
                   bytes_handled |-> call.handled_bytes,
                   objects_handled |-> n - 1,
                   next_object_size |-> object.size]
         ws == [workers EXCEPT
                  ![i] = [@ EXCEPT !.n = n,
                                   !.log = IF emits THEN <<event>> ELSE <<>>]]
         step ==
           IF object.error # None
           THEN [store |-> store,
                 workers |-> Finish(ws, i, Err(RemoteError("ObjectError",
                               <<object.error[1].code, " - ",
                                 object.error[1].message>>)))]
           ELSE IF object.actions = None
           THEN [store |-> store, workers |-> Finish(ws, i, Ok("unit"))]
           ELSE IF object.actions[1].download = None
           THEN [store |-> store,
                 workers |-> Finish(ws, i, Err(RemoteError("EmptyResponse", <<>>)))]
           ELSE IF found = None
           THEN [store |-> store,
                 workers |-> Finish(ws, i, Err(RemoteError("NotFound", <<>>)))]
           ELSE DownloadAttempt(store,
                  [ws EXCEPT ![i] = [@ EXCEPT !.pointer = found,
                                              !.path = path(found[1])]], i)
     IN /\ call' = [call EXCEPT
                      !.handled_objects = n,
                      !.handled_bytes = IF emits THEN @ + object.size ELSE @]
        /\ Took(step, i)
  /\ UNCHANGED <<codec, callers, commits, ext, config, checked, filter, cleaned, tree, trace>>

\* the bodies the remote answers a GET for this pointer with
Served(pointer) == {b \in RemoteBlobs : Sha256(b) = pointer.hash} \cup {WrongBody}

\* the response to the GET arrives (remote/reqwest.rs:108-118)
GetReply(i) ==
  /\ call.op = "pull" /\ call.pc = "workers"
  /\ i \in DOMAIN workers /\ workers[i].pc = "get"
  /\ \E status \in TransferStatuses :
       LET r == or_err(status, "body", "Download")
       IN IF r.ok
          THEN /\ \E body \in Served(workers[i].pointer[1]) :
                    workers' = [workers EXCEPT
                                  ![i] = [@ EXCEPT !.pc = "body",
                                                   !.remaining = body]]
               /\ UNCHANGED <<store, results>>
          ELSE Took(DownloadFailed(store, workers, i, r.err), i)
  /\ UNCHANGED <<codec, callers, commits, ext, config, checked, filter, cleaned, tree, call, trace>>

\* the next item of the body stream (remote/reqwest.rs:123-129): a chunk, an
\* error, or the end
BodyChunk(i) ==
  /\ call.op = "pull" /\ call.pc = "workers"
  /\ i \in DOMAIN workers /\ workers[i].pc = "body"
  /\ LET w == workers[i]
     IN \/ /\ w.remaining # <<>>
           /\ \E flush \in BOOLEAN :
                LET w1 == [w EXCEPT !.received = Append(@, Head(w.remaining)),
                                    !.remaining = Tail(@)]
                IN /\ workers' = [workers EXCEPT ![i] = w1]
                   /\ store' = IF flush THEN Flushed(store, w1) ELSE store
           /\ UNCHANGED results
        \/ /\ w.remaining = <<>>
           /\ Took(DownloadEnded(store, workers, i), i)
        \/ Took(DownloadFailed(Flushed(store, w), workers, i,
                               RemoteError("Download", <<"stream">>)), i)
  /\ UNCHANGED <<codec, callers, commits, ext, config, checked, filter, cleaned, tree, call, trace>>

\* the last error of the results, not the first
FirstErr_last(rs) ==
  LET errs == {k \in 1..Len(rs) : ~rs[k].ok}
  IN IF errs = {} THEN Ok("unit")
     ELSE rs[CHOOSE k \in errs : \A j \in errs : j <= k]

\* a collection of the results that lets EmptyResponse pass
FirstErr_lenient(rs) ==
  LET errs == {k \in 1..Len(rs) : ~rs[k].ok /\ rs[k].err.kind # "EmptyResponse"}
  IN IF errs = {} THEN Ok("unit")
     ELSE rs[CHOOSE k \in errs : \A j \in errs : k <= j]

\* r.into_iter().find_map(|r| r.err()) (remote/mod.rs:229, 322)
FirstErr(rs) ==
  LET errs == {k \in 1..Len(rs) : ~rs[k].ok}
  IN IF errs = {} THEN Ok("unit")
     ELSE rs[CHOOSE k \in errs : \A j \in errs : k <= j]

\* every future has finished: the call returns (remote/mod.rs:224-233)
Return ==
  /\ call.pc = "workers"
  /\ \A j \in DOMAIN workers : workers[j].pc = "done"
  /\ call' = [call EXCEPT !.pc = "done", !.ret = Some(FirstErr(results))]
  /\ UNCHANGED <<codec, callers, commits, ext, config, checked, store, filter, cleaned, tree, workers, results, trace>>

\* the caller has the result and drops the client
Finished ==
  /\ call.pc = "done"
  /\ tree' = <<>>
  /\ call' = NoCall
  /\ workers' = <<>>
  /\ results' = <<>>
  /\ trace' = <<>>
  /\ UNCHANGED <<codec, callers, commits, ext, config, checked, store, filter, cleaned>>

\* the process is stopped while the call is under way (a signal, a power
\* cut): what the workers hold in memory is lost, the files stay as they are
Abort ==
  /\ call.pc \in {"batch", "workers"}
  /\ tree' = <<>>
  /\ call' = NoCall
  /\ workers' = <<>>
  /\ results' = <<>>
  /\ trace' = <<>>
  /\ UNCHANGED <<codec, callers, commits, ext, config, checked, store, filter, cleaned>>

PullInit ==
  /\ CodecIdle
  /\ FilterIdle
  /\ EngineIdle
  /\ ExtIdle
  /\ store \in ValidStores

PullNext ==
  \/ Pull
  \/ PullTree
  \/ PullBatchReply
  \/ \E i \in 1..MaxPointers : StartDownload(i)
  \/ \E i \in 1..MaxPointers : GetReply(i)
  \/ \E i \in 1..MaxPointers : BodyChunk(i)
  \/ Return
  \/ Finished
  \/ Abort

SpecPull == PullInit /\ [][PullNext]_vars

\* LfsClient::push up to the await of the batch request (remote/mod.rs:
\* 128-140)
Push ==
  \E pointers \in PointerLists, limit \in 1..MaxLimit, progress \in BOOLEAN :
    /\ tree' = <<>>
    /\ StartCall("push", "upload", pointers, limit, progress)

PushBatchReply ==
  /\ call.op = "push"
  /\ BatchReply(UploadShapes, "upload")

\* a progress event that counts its own object among those handled
UploadEvent_counted(phase, w, object) ==
  [kind |-> "event", phase |-> phase,
   total_objects |-> Len(call.response),
   total_bytes |-> SumSizes(call.response, Len(call.response)),
   bytes_handled |-> w.handled_bytes + object.size,
   objects_handled |-> w.n,
   next_object_size |-> object.size]

\* ProgressEvent (remote/mod.rs:262-268, 298-304)
UploadEvent(phase, w, object) ==
  [kind |-> "event", phase |-> phase,
   total_objects |-> Len(call.response),
   total_bytes |-> SumSizes(call.response, Len(call.response)),
   bytes_handled |-> w.handled_bytes,
   objects_handled |-> w.n - 1,
   next_object_size |-> object.size]

\* after the upload loop (remote/mod.rs:295-313): the verify request, if the
\* response asks for one, up to its await
AfterUpload(ws, i) ==
  LET w == ws[i]
      object == call.response[i]
  IN IF object.actions[1].verify # None
     THEN [ws EXCEPT
             ![i] = [@ EXCEPT
                       !.pc = "verify",
                       !.log = @ \o (IF call.progress
                                     THEN <<UploadEvent("Verify", w, object)>>
                                     ELSE <<>>)
                                 \o <<[kind |-> "verify",
                                       href |-> "verify.href",
                                       body |-> [oid |-> hex(w.pointer[1].hash),
                                                 size |-> w.pointer[1].size],
                                       user_agent |-> TRUE,
                                       accept |-> None,
                                       content_type |-> Some("application/json")]>>]]
     ELSE Finish(ws, i, Ok("unit"))

\* one turn of the upload loop up to the await of the PUT (remote/mod.rs:
\* 282-284), or the end of the loop
UploadAttempt(ws, i) ==
  IF ws[i].attempt < 3
  THEN [ws EXCEPT
          ![i] = [@ EXCEPT
                    !.pc = "put",
                    !.log = Append(@, [kind |-> "PUT", href |-> "upload.href",
                                       body |-> ws[i].received,
                                       user_agent |-> TRUE])]]
  ELSE AfterUpload(ws, i)

\* the first poll of the future of object i (remote/mod.rs:248-284)
\* an upload worker that reports its object before it looks at the response
UploadEmits_first(object, progress) == progress

\* the upload worker reaches on_progress (remote/mod.rs:251-270): the object
\* carries no error, has actions, and a callback is set
UploadEmits(object, progress) ==
  object.error = None /\ object.actions # None /\ progress

StartUpload(i) ==
  /\ call.op = "push" /\ call.pc = "workers"
  /\ i \in DOMAIN workers /\ workers[i].pc = "queued"
  /\ \A j \in 1..(i - 1) : workers[j].pc # "queued"
  /\ InFlight < call.limit
  /\ \E found \in {FindPointer(call.pointers, call.response[i].oid)} :
     LET object == call.response[i]
         n == call.handled_objects + 1
         w0 == [workers[i] EXCEPT !.n = n, !.handled_bytes = call.handled_bytes]
         emits == UploadEmits(object, call.progress)
         w1 == [w0 EXCEPT !.log = IF emits
                                  THEN <<UploadEvent("Upload", w0, object)>>
                                  ELSE <<>>]
         ws == [workers EXCEPT ![i] = w1]
         ws1 ==
           IF object.error # None
           THEN Finish(ws, i, Err(RemoteError("ObjectError",
                         <<object.error[1].code, " - ",
                           object.error[1].message>>)))
           ELSE IF object.actions = None
           THEN Finish(ws, i, Ok("unit"))
           ELSE IF found = None
           THEN Finish(ws, i, Err(RemoteError("NotFound", <<>>)))
           ELSE LET p == path(found[1])
                    ws2 == [ws EXCEPT ![i] = [@ EXCEPT !.pointer = found,
                                                       !.path = p]]
                IN IF object.actions[1].upload = None
                   THEN AfterUpload(ws2, i)
                   ELSE IF p \notin DOMAIN store
                   THEN Finish(ws2, i, Err(RemoteError("Io", <<"NotFound">>)))
                   ELSE UploadAttempt(
                          [ws2 EXCEPT ![i] = [@ EXCEPT !.received = store[p]]], i)
     IN /\ call' = [call EXCEPT !.handled_objects = n,
                                !.handled_bytes = @ + object.size]
        /\ Took([store |-> store, workers |-> ws1], i)
  /\ UNCHANGED <<codec, callers, commits, ext, config, checked, filter, cleaned, tree, trace>>

\* the response to the PUT arrives (remote/reqwest.rs:136-148, remote/mod.rs:
\* 284-292)
PutReply(i) ==
  /\ call.op = "push" /\ call.pc = "workers"
  /\ i \in DOMAIN workers /\ workers[i].pc = "put"
  /\ \E status \in TransferStatuses :
       LET r == or_err(status, "body", "Upload")
       IN IF r.ok
          THEN Took([store |-> store, workers |-> AfterUpload(workers, i)], i)
          ELSE Took([store |-> store,
                     workers |-> UploadAttempt(
                       [workers EXCEPT
                          ![i] = [@ EXCEPT
                                    !.attempt = @ + 1,
                                    !.log = Append(@, [kind |-> "failed",
                                                       error |-> r.err.kind])]],
                       i)], i)
  /\ UNCHANGED <<codec, callers, commits, ext, config, checked, filter, cleaned, tree, call, trace>>

\* the response to the verify request arrives (remote/reqwest.rs:150-167,
\* remote/mod.rs:310-313)
VerifyReply(i) ==
  /\ call.op = "push" /\ call.pc = "workers"
  /\ i \in DOMAIN workers /\ workers[i].pc = "verify"
  /\ \E status \in Statuses :
       LET r == or_err(status, "body", "Verify")
       IN Took([store |-> store,
                workers |-> Finish(workers, i,
                                   IF r.ok THEN Ok("unit") ELSE r)], i)
  /\ UNCHANGED <<codec, callers, commits, ext, config, checked, filter, cleaned, tree, call, trace>>

PushInit == PullInit

PushNext ==
  \/ Push
  \/ PushBatchReply
  \/ \E i \in 1..MaxPointers : StartUpload(i)
  \/ \E i \in 1..MaxPointers : PutReply(i)
  \/ \E i \in 1..MaxPointers : VerifyReply(i)
  \/ Return
  \/ Finished
  \/ Abort

SpecPush == PushInit /\ [][PushNext]_vars

(***************************************************************************)
(* The repository extensions (src/src/ext.rs).                             *)
(***************************************************************************)
\* most entries the walk of a tree hands over
MaxTreeEntries == 3

\* the entries of the trees: pointer blobs at the top and in a subdirectory,
\* a pointer blob without size line, a blob that is no pointer, a blob the
\* object database lacks, the subdirectory itself, a submodule
WalkEntries ==
  {BlobEntry(d, PointerText(b)) : d \in {"", "sub/"}, b \in RemoteBlobs}
    \cup {BlobEntry("", TwoLineText(<<0>>)), BlobEntry("", BlobText),
          TreeEntry("blob", "", None), TreeEntry("tree", "", None),
          TreeEntry("commit", "", None)}

\* a pre-order walk: the entries of the subdirectory follow its own entry
IsWalk(t) ==
  /\ Cardinality({i \in DOMAIN t : t[i].kind = "tree"}) <= 1
  /\ \A i \in DOMAIN t :
       t[i].dir = "sub/"
       => i > 1 /\ (t[i - 1].kind = "tree" \/ t[i - 1].dir = "sub/")

WalkTrees == {t \in SeqsUpTo(WalkEntries, MaxTreeEntries) : IsWalk(t)}

\* repo.find_tree_missing_lfs_objects(&tree) on the HEAD tree
\* (tests/lfs/pull.rs:64-65)
FindTreeMissing ==
  /\ ext.op = "none"
  /\ ext' = [op |-> "find_tree_missing", local |-> 0, upstream |-> 0,
             ret |-> Ok(find_tree_missing_lfs_objects(tree, store))]
  /\ UNCHANGED <<codec, filterVars, commits, config, checked, engineVars>>

MissingInit ==
  /\ CodecIdle
  /\ FilterIdle
  /\ ExtIdle
  /\ call = NoCall /\ workers = <<>> /\ results = <<>> /\ trace = <<>>
  /\ tree \in WalkTrees
  /\ store \in ValidStores

MissingNext == FindTreeMissing

SpecMissing == MissingInit /\ [][MissingNext]_vars

\* most commits in the repository
MaxCommits == 3

\* String::from_utf8_lossy on the bytes of the model: a byte that is no
\* UTF-8 text becomes U+FFFD, whose UTF-8 encoding is EF BF BD
Lossy(bytes) ==
  IF Utf8Ok(bytes) THEN bytes
  ELSE LET Bad(i) == Cardinality({j \in 1..i : bytes[j] >= 128})
           End(i) == i + 2 * Bad(i)
           At(k) == CHOOSE i \in 1..Len(bytes) : End(i - 1) < k /\ k <= End(i)
       IN [k \in 1..End(Len(bytes)) |->
             IF bytes[At(k)] < 128 THEN bytes[At(k)]
             ELSE <<239, 191, 189>>[k - End(At(k) - 1)]]

\* text with a further line of n bytes after it
Padded(text, n) == text \o [i \in 1..n |-> LOWER_A]

\* text filled up by a further line to n bytes
PaddedTo(text, n) == Padded(text, n - Len(text))

\* the blobs of the repository: two pointer texts, pointer texts of 119, of
\* 219 and of 220 bytes, and a pointer text with a byte that is no text
PushBlobs ==
  { PointerText(<<0>>), PointerText(<<0, 255>>), TwoLineText(<<0, 255>>),
    PaddedTo(PointerText(<<0, 255>>), POINTER_ROUGH_LEN_END - 1),
    PaddedTo(PointerText(<<0, 255>>), POINTER_ROUGH_LEN_END),
    PointerText(<<0>>) \o WrongBody }

\* Pointer::from_str(&String::from_utf8_lossy(blob.content())) (ext.rs:139-140)
\* of each blob of the repository
ParsedBlob == [b \in PushBlobs |-> from_str(Lossy(b))]

\* the pointers that the walk of one tree inserts (ext.rs:123-145)
TreePointers(t) ==
  {ParsedBlob[t[i].blob[1]].val :
     i \in {j \in DOMAIN t :
              /\ t[j].kind = "blob"
              /\ t[j].blob # None
              /\ Len(t[j].blob[1]) >= POINTER_ROUGH_LEN_START
              /\ Len(t[j].blob[1]) < POINTER_ROUGH_LEN_END
              /\ ParsedBlob[t[j].blob[1]].ok}}

\* the trees of the commits: none, one and two pointer blobs, and a tree with
\* one pointer at two paths beside pointer texts of 119 and of 220 bytes, a
\* blob that is no text and a blob the object database lacks; a pointer text
\* of 219 bytes
PushTrees ==
  { t \in
    { <<>>,
      <<BlobEntry("", PointerText(<<0>>))>>,
      <<BlobEntry("", PointerText(<<0>>)), BlobEntry("", PointerText(<<0, 255>>))>>,
      <<BlobEntry("", PointerText(<<0>>)), TreeEntry("tree", "", None),
        BlobEntry("sub/", PointerText(<<0>>)),
        BlobEntry("sub/", TwoLineText(<<0, 255>>)),
        BlobEntry("sub/", PaddedTo(PointerText(<<0, 255>>), POINTER_ROUGH_LEN_END)),
        BlobEntry("sub/", PointerText(<<0>>) \o WrongBody),
        TreeEntry("blob", "sub/", None)>>,
      <<BlobEntry("", PaddedTo(PointerText(<<0, 255>>), POINTER_ROUGH_LEN_END - 1))>> } :
    \A i \in DOMAIN t : t[i].blob # None => t[i].blob[1] \in PushBlobs }

RECURSIVE Reach(_, _)
\* the commits a revwalk from c visits: c and its ancestors
Reach(cs, c) == {c} \cup UNION {Reach(cs, p) : p \in cs[c].parents}

\* revwalk.push(local), revwalk.hide(upstream) (ext.rs:114-117)
revwalk(cs, local, upstream) == Reach(cs, local) \ Reach(cs, upstream)

\* a find_lfs_objects_to_push that walks the tree of the local commit only
find_lfs_objects_to_push_head(cs, local, upstream) ==
  IF local \in revwalk(cs, local, upstream) THEN TreePointers(cs[local].tree)
  ELSE {}

\* RepoLfsExt::find_lfs_objects_to_push (ext.rs:107-150): the HashSet
find_lfs_objects_to_push(cs, local, upstream) ==
  UNION {TreePointers(cs[c].tree) : c \in revwalk(cs, local, upstream)}

\* objects_to_push.into_iter().collect() (ext.rs:148): the set in some order
Enumerations(S) ==
  {q \in [1..Cardinality(S) -> S] : \A i, j \in 1..Cardinality(S) : q[i] = q[j] => i = j}

\* the commit graphs: each commit has its parents among the commits before it
Graphs ==
  UNION {{cs \in [1..n -> [parents : SUBSET (1..n), tree : PushTrees]] :
            \A c \in 1..n : \A p \in cs[c].parents : p < c} : n \in 1..MaxCommits}

\* repo.find_lfs_objects_to_push(&local, &upstream) (tests/lfs/push.rs:40-41)
FindToPush(local, upstream) ==
  /\ ext.op = "none"
  /\ \E q \in Enumerations(find_lfs_objects_to_push(commits, local, upstream)) :
       ext' = [op |-> "find_to_push", local |-> local, upstream |-> upstream,
               ret |-> Ok(q)]
  /\ UNCHANGED <<codec, filterVars, commits, config, checked, engineVars>>

ToPushInit ==
  /\ CodecIdle
  /\ FilterIdle
  /\ EngineIdle
  /\ store = EmptyStore
  /\ ext = NoExt
  /\ config = DefaultBuilder
  /\ checked = NoCheck
  /\ commits \in Graphs

ToPushNext == \E local, upstream \in DOMAIN commits : FindToPush(local, upstream)

SpecToPush == ToPushInit /\ [][ToPushNext]_vars

\* a get_lfs_blob_content that hands the blob over when the object is absent
get_lfs_blob_content_lenient(st, blob) ==
  LET pointer == from_str_short(blob)
  IN IF ~pointer.ok THEN Ok(blob)
     ELSE IF ~path(pointer.val) \in DOMAIN st THEN Ok(blob)
     ELSE Ok(st[path(pointer.val)])

\* RepoLfsExt::get_lfs_blob_content (ext.rs:40-64): the bytes or the error
get_lfs_blob_content(st, blob) ==
  LET pointer == from_str_short(blob)
  IN IF ~pointer.ok THEN Ok(blob)
     ELSE IF ~path(pointer.val) \in DOMAIN st
       THEN Err([kind |-> "Git2", code |-> "NotFound", class |-> "Odb"])
     ELSE Ok(st[path(pointer.val)])

\* the blobs resolved: the blobs of the commits, a blob that is no pointer
\* and an empty one
ResolveBlobs == PushBlobs \cup {BlobText, <<>>}

\* the object stores: each object absent, whole, or cut short
BlobStores ==
  UNION {{[p \in {path(PointerOf(b)) : b \in S} |->
             LET b == CHOOSE b \in S : path(PointerOf(b)) = p
             IN IF b \in cut THEN <<>> ELSE b] : cut \in SUBSET S} :
         S \in SUBSET RemoteBlobs}

\* repo.get_lfs_blob_content(&blob) for the blob of the tree's entry
\* (tests/lfs/blob.rs:25)
GetLfsBlobContent ==
  /\ ext.op = "none"
  /\ ext' = [op |-> "get_lfs_blob_content", local |-> 0, upstream |-> 0,
             ret |-> get_lfs_blob_content(store, tree[1].blob[1])]
  /\ UNCHANGED <<codec, filterVars, commits, config, checked, engineVars>>

BlobInit ==
  /\ CodecIdle
  /\ FilterIdle
  /\ ExtIdle
  /\ call = NoCall /\ workers = <<>> /\ results = <<>> /\ trace = <<>>
  /\ tree \in {<<BlobEntry("", b)>> : b \in ResolveBlobs}
  /\ store \in BlobStores

BlobNext == GetLfsBlobContent

SpecBlob == BlobInit /\ [][BlobNext]_vars

(***************************************************************************)
(* Lfs::check under the LfsBuilder's configuration.                        *)
(***************************************************************************)
\* largest file size and size limit
MaxFileSize == 2

\* the index of the last c of s, 0 when there is none
LastIndexOf(s, c) ==
  LET at == {i \in 1..Len(s) : s[i] = c}
  IN IF at = {} THEN 0 ELSE CHOOSE i \in at : \A j \in at : j <= i

\* Path::file_name: the last component of the path
file_name(p) == SubSeq(p, LastIndexOf(p, "/") + 1, Len(p))

\* Path::extension (lfs.rs:36): the part of the file name after its last
\* ".", None when the name has no "." or only begins with one
extension(p) ==
  LET name == file_name(p)
      dot == LastIndexOf(name, ".")
  IN IF dot <= 1 THEN None ELSE Some(SubSeq(name, dot + 1, Len(name)))

\* Lfs::check (lfs.rs:34-47); metadata is what path.metadata() finds: the
\* size of the file, None when there is no file
check(cfg, p, metadata) ==
  IF cfg.exts # None /\ extension(p) # None
  THEN Ok(extension(p)[1] \in cfg.exts[1])
  ELSE IF cfg.max_file_size # None
  THEN IF metadata = None THEN Err("Io:NotFound")
       ELSE Ok(metadata[1] <= cfg.max_file_size[1])
  ELSE Ok(FALSE)

\* the paths checked: with an extension in either case, with another one,
\* without one, a dot file, and a file without extension in a directory
\* whose name has one
CheckPaths ==
  { <<"a", ".", "b", "i", "n">>, <<"a", ".", "B", "I", "N">>,
    <<"a", ".", "t", "x", "t">>, <<"a">>, <<".", "b", "i", "n">>,
    <<"d", ".", "b", "i", "n", "/", "a">> }

\* the extension sets configured
ExtSets == { {}, {<<"b", "i", "n">>}, {<<"b", "i", "n">>, <<"t", "x", "t">>} }

\* LfsBuilder::with_file_extensions (lfs.rs:101-104)
with_file_extensions(exts) ==
  /\ config' = [config EXCEPT !.exts = Some(exts)]
  /\ UNCHANGED <<codec, filterVars, commits, ext, checked, engineVars>>

\* LfsBuilder::with_max_file_size (lfs.rs:106-109)
with_max_file_size(max_file_size) ==
  /\ config' = [config EXCEPT !.max_file_size = Some(max_file_size)]
  /\ UNCHANGED <<codec, filterVars, commits, ext, checked, engineVars>>

\* Lfs::new(repo, &config).check(path) (lfs.rs:132-134)
Check(p, metadata) ==
  /\ checked' = [pc |-> "done", path |-> p, metadata |-> metadata,
                 ret |-> check(config, p, metadata)]
  /\ UNCHANGED <<codec, filterVars, commits, ext, config, engineVars>>

CheckInit ==
  /\ CodecIdle
  /\ FilterIdle
  /\ ExtIdle
  /\ EngineIdle
  /\ store = EmptyStore

CheckNext ==
  \/ \E exts \in ExtSets : with_file_extensions(exts)
  \/ \E max_file_size \in 0..MaxFileSize : with_max_file_size(max_file_size)
  \/ \E p \in CheckPaths, metadata \in {None} \cup {Some(n) : n \in 0..MaxFileSize} :
       Check(p, metadata)

SpecCheck == CheckInit /\ [][CheckNext]_vars

(***************************************************************************)
(* index.add of a file: the host asks on_check, and applies the filter in  *)
(* clean mode when the answer is true.                                     *)
(***************************************************************************)
\* an on_check that lets every path participate
on_check_any(attrs, p, cfg, metadata) ==
  IF attrs # None THEN Ok(TRUE)
  ELSE IF p = None THEN Ok(FALSE)
  ELSE Ok(TRUE)

\* the on_check callback (lfs.rs:122-141); attrs are the values of the
\* filter's attributes for the path, None when the filter has none
on_check(attrs, p, cfg, metadata) ==
  IF attrs # None THEN Ok(TRUE)
  ELSE IF p = None THEN Ok(FALSE)
  ELSE LET r == check(cfg, p[1], metadata)
       IN IF r.ok THEN r ELSE Err("Git2: io: NotFound")

\* index.add_all (tests/lfs/mod.rs:28-30) for the one file of the working copy:
\* the blob written is the filter's output when on_check says true, and the
\* file's bytes when it says false; an error of on_check fails the add
Add(p, attrs, bytes, metadata) ==
  LET r == on_check(attrs, p, config, metadata)
  IN /\ checked.pc = "idle"
     /\ checked' = [pc |-> "done", path |-> IF p = None THEN <<>> ELSE p[1],
                    metadata |-> metadata, ret |-> r]
     /\ IF r.ok /\ r.val THEN Cleaning(bytes)
        ELSE /\ filter' = [op |-> IF r.ok THEN "passthrough" ELSE "failed",
                           input |-> bytes,
                           out |-> IF r.ok THEN bytes ELSE <<>>,
                           ret |-> Ok(FALSE), skipped |-> FALSE]
             /\ UNCHANGED <<store, cleaned>>
     /\ UNCHANGED <<codec, callers, commits, ext, config, engineVars>>

AddInit == CheckInit

\* path.metadata() sees the file added, or no file when the path, which is
\* relative to the working directory, is resolved elsewhere
AddNext ==
  \/ \E exts \in ExtSets : with_file_extensions(exts)
  \/ \E max_file_size \in 0..MaxFileSize : with_max_file_size(max_file_size)
  \/ \E p \in {None} \cup {Some(q) : q \in CheckPaths},
        attrs \in {None, Some("lfs")}, bytes \in Blobs :
       \E metadata \in {None, Some(Len(bytes))} : Add(p, attrs, bytes, metadata)

SpecAdd == AddInit /\ [][AddNext]_vars

\* a client that pulls and pushes, each call running to its return
EngineInit == PullInit

EngineNext ==
  \/ Pull
  \/ PullTree
  \/ PullBatchReply
  \/ \E i \in 1..MaxPointers : StartDownload(i)
  \/ \E i \in 1..MaxPointers : GetReply(i)
  \/ \E i \in 1..MaxPointers : BodyChunk(i)
  \/ Push
  \/ PushBatchReply
  \/ \E i \in 1..MaxPointers : StartUpload(i)
  \/ \E i \in 1..MaxPointers : PutReply(i)
  \/ \E i \in 1..MaxPointers : VerifyReply(i)
  \/ Return
  \/ Finished

SpecEngine == EngineInit /\ [][EngineNext]_vars

\* a step of a call under way: an answer arrives, a future is polled, the
\* stream of futures ends
CallStep ==
  \/ PullBatchReply
  \/ \E i \in 1..MaxPointers : StartDownload(i)
  \/ \E i \in 1..MaxPointers : GetReply(i)
  \/ \E i \in 1..MaxPointers : BodyChunk(i)
  \/ PushBatchReply
  \/ \E i \in 1..MaxPointers : StartUpload(i)
  \/ \E i \in 1..MaxPointers : PutReply(i)
  \/ \E i \in 1..MaxPointers : VerifyReply(i)
  \/ Return

\* a client that makes one call, on an empty store or on one that holds
\* every object, when every request is answered and the executor polls every
\* future that can go on (buffer_unordered, remote/mod.rs:224, 315)
TerminatesInit ==
  /\ EngineInit
  /\ \/ store = EmptyStore
     \/ \A b \in RemoteBlobs : path(PointerOf(b)) \in DOMAIN store

\* one call, from its start to its return
TerminatesNext ==
  \/ Pull
  \/ PullTree
  \/ Push
  \/ CallStep

SpecTerminates == TerminatesInit /\ [][TerminatesNext]_vars /\ WF_vars(CallStep)

(***************************************************************************)
(* What the claims speak of, stated apart from the code's own operators.   *)
(***************************************************************************)
IsLowerHexChar(c) ==
  (c >= DIGIT_0 /\ c <= DIGIT_9) \/ (c >= LOWER_A /\ c <= LOWER_F)

LowerHexVal(c) == IF c <= DIGIT_9 THEN c - DIGIT_0 ELSE c - LOWER_A + 10

\* text is the 64 lowercase hex characters of the 32 bytes of hash
IsHexOf(text, hash) ==
  /\ Len(text) = 64
  /\ Len(hash) = 32
  /\ \A i \in 1..64 : IsLowerHexChar(text[i])
  /\ \A i \in 1..32 :
       16 * LowerHexVal(text[2 * i - 1]) + LowerHexVal(text[2 * i]) = hash[i]

\* text is the decimal numeral of n: digits only, no leading zero
IsDecimalOf(text, n) ==
  /\ Len(text) >= 1
  /\ \A i \in 1..Len(text) : IsDigit(text[i])
  /\ (Len(text) > 1 => text[1] # DIGIT_0)
  /\ DigitsValue(text, 0) = n

\* text is the canonical pointer text of (hash, size): three lines, each
\* ended by "\n", and nothing else
IsCanonicalText(text, hash, size) ==
  /\ Len(text) >= 126
  /\ SubSeq(text, 1, 42) = VERSION
  /\ text[43] = NL
  /\ SubSeq(text, 44, 54) = OID_PREFIX
  /\ IsHexOf(SubSeq(text, 55, 118), hash)
  /\ text[119] = NL
  /\ SubSeq(text, 120, 124) = SIZE_PREFIX
  /\ IsDecimalOf(SubSeq(text, 125, Len(text) - 1), size)
  /\ text[Len(text)] = NL
  /\ Cardinality({i \in 1..Len(text) : text[i] = NL}) = 3

\* the fan-out path aa/bb/<hex> of a hash
FanOutPath(hash) ==
  LET h == hex(hash)
  IN <<h[1], h[2], SLASH, h[3], h[4], SLASH>> \o h

(***************************************************************************)
(* C1: every clean returns true, leaves in the sink exactly the canonical  *)
(* pointer text of (SHA-256(input), len(input)), and leaves in the object  *)
(* store a file at the fan-out path of that hash that holds the input.     *)
(***************************************************************************)
C1_CleanStoresAndEmits ==
  filter.op = "clean" =>
    /\ filter.ret = Ok(TRUE)
    /\ IsCanonicalText(filter.out, Sha256(filter.input), Len(filter.input))
    /\ FanOutPath(Sha256(filter.input)) \in DOMAIN store
    /\ store[FanOutPath(Sha256(filter.input))] = filter.input

\* b"blob" has been cleaned while other objects were in the store
C1_Witness ==
  /\ filter.op = "clean"
  /\ filter.input = BlobText
  /\ Cardinality(DOMAIN store) >= 2

(***************************************************************************)
(* C2: smudge of the pointer text that clean wrote for a byte string       *)
(* returns true and writes exactly that byte string, whatever was cleaned  *)
(* afterwards, as long as its object file was not removed.                 *)
(***************************************************************************)
C2_SmudgeRestoresCleaned ==
  \A c \in cleaned :
    (filter.op = "smudge" /\ filter.input = c.text) =>
      (filter.ret = Ok(TRUE) /\ filter.out = c.bytes)

\* an earlier version is smudged after later ones were cleaned
C2_Witness ==
  /\ filter.op = "smudge"
  /\ Cardinality(cleaned) >= 3
  /\ \E c \in cleaned : filter.input = c.text /\ filter.out = c.bytes

(***************************************************************************)
(* C3: smudge of a valid pointer whose object file is absent returns false *)
(* (no error), writes nothing to the sink, and leaves every file alone.    *)
(***************************************************************************)
C3_SmudgeMissingDeclines ==
  [][ ( /\ filter'.op = "smudge"
        /\ from_str_short(filter'.input).ok
        /\ FanOutPath(from_str_short(filter'.input).val.hash) \notin DOMAIN store )
      => ( /\ filter'.ret = Ok(FALSE)
           /\ filter'.out = <<>>
           /\ store' = store ) ]_vars

\* the object of a cleaned file was removed, and its pointer is smudged
C3_Witness ==
  /\ filter.op = "smudge"
  /\ filter.input = PointerText(BlobText)
  /\ FanOutPath(Sha256(BlobText)) \notin DOMAIN store
  /\ filter.ret = Ok(FALSE)
  /\ store # EmptyStore

(***************************************************************************)
(* C4: parsing the text that write_pointer writes for a pointer gives back *)
(* that pointer, for any hash and size and for the pointer of any bytes.   *)
(***************************************************************************)
C4_EmitParseRoundTrip ==
  codec.pc = "parsed" => codec.parsed = Ok(codec.pointer)

\* the pointer of b"blob", and a pointer with a many-digit size, went round
C4_Witness ==
  /\ codec.pc = "parsed"
  /\ codec.parsed.ok
  /\ codec.pointer.size >= 10
  /\ codec.parsed.val.size = codec.pointer.size

(***************************************************************************)
(* C5: write_pointer writes exactly three lines, each ended by a newline:  *)
(* the version line, "oid sha256:" and the 64 lowercase hex characters of  *)
(* the hash, "size " and the decimal of the size (also when it is 0).      *)
(***************************************************************************)
C5_EmitIsCanonical ==
  codec.pc \in {"emitted", "parsed"} =>
    IsCanonicalText(codec.text, codec.pointer.hash, codec.pointer.size)

\* a pointer of size 0 was written, size line included
C5_Witness ==
  /\ codec.pc = "emitted"
  /\ codec.pointer.size = 0
  /\ SubSeq(codec.text, 120, 126) = SIZE_PREFIX \o <<DIGIT_0, NL>>


\* the places in a worker's log of the entries of one kind
LogOf(w, kind) == {k \in DOMAIN w.log : w.log[k].kind = kind}

\* the worker has finished and each of its GETs was answered by a body that
\* does not hash to the oid asked for
MismatchedEveryTime(w) ==
  /\ w.pc = "done"
  /\ LogOf(w, "GET") # {}
  /\ Cardinality(LogOf(w, "failed")) = Cardinality(LogOf(w, "GET"))
  /\ \A k \in LogOf(w, "failed") : w.log[k].error = "ChecksumMismatch"

\* the worker has finished and three GETs of it failed in the transport
TransportFailedThrice(w) ==
  /\ w.pc = "done"
  /\ Cardinality(LogOf(w, "failed")) = 3
  /\ \A k \in LogOf(w, "failed") : w.log[k].error = "Download"

\* the worker has finished and three PUTs of it failed
UploadFailedThrice(w) ==
  /\ w.pc = "done"
  /\ Cardinality(LogOf(w, "failed")) = 3

\* the error of the worker's last failed attempt
LastFailure(w) ==
  LET failed == LogOf(w, "failed")
  IN w.log[CHOOSE k \in failed : \A j \in failed : j <= k].error

IsErrOfKind(option, kind) ==
  /\ option # None
  /\ ~option[1].ok
  /\ option[1].err.kind = kind

IsErr(option) == option # None /\ ~option[1].ok
IsOk(option) == option # None /\ option[1].ok

\* the response offers a download of the pointer's object
OffersDownload(response, pointer) ==
  \E j \in DOMAIN response :
    /\ IsHexOf(response[j].oid, pointer.hash)
    /\ response[j].error = None
    /\ response[j].actions # None
    /\ response[j].actions[1].download # None

(***************************************************************************)
(* C6: in every state, also while a download runs, between its attempts    *)
(* and after a pull that failed or was stopped, each file under            *)
(* lfs/objects holds contents whose SHA-256 is the hash its path encodes.   *)
(***************************************************************************)
C6_StoredFilesMatchTheirPath ==
  \A p \in DOMAIN store : p = FanOutPath(Sha256(store[p]))

(***************************************************************************)
(* C7: when pull(find_tree_missing(tree)) returns success and the batch    *)
(* response offered a download for each pointer of the list, each object   *)
(* of the list is in the store with contents that hash to its oid, and     *)
(* find_tree_missing(tree) now returns no pointer.                         *)
(***************************************************************************)
C7_PullSuccessLeavesNothingMissing ==
  ( /\ call.op = "pull"
    /\ call.pc = "done"
    /\ tree # <<>>
    /\ IsOk(call.ret)
    /\ \A k \in DOMAIN call.pointers : OffersDownload(call.response, call.pointers[k]) )
  => /\ \A k \in DOMAIN call.pointers :
          LET p == FanOutPath(call.pointers[k].hash)
          IN p \in DOMAIN store /\ Sha256(store[p]) = call.pointers[k].hash
     /\ find_tree_missing_lfs_objects(tree, store) = <<>>

(***************************************************************************)
(* C8: a download worker whose every attempt received bytes that do not    *)
(* hash to the oid has made 3 attempts, ends with ChecksumMismatch and     *)
(* leaves no file at the object's path; pull of that one object returns    *)
(* ChecksumMismatch.                                                        *)
(***************************************************************************)
C8_MismatchRetriedThrice ==
  \A i \in DOMAIN workers :
    (call.op = "pull" /\ MismatchedEveryTime(workers[i]))
    => /\ Cardinality(LogOf(workers[i], "GET")) = 3
       /\ IsErrOfKind(workers[i].result, "ChecksumMismatch")
       /\ (\A j \in DOMAIN workers : j # i => workers[j].path # workers[i].path)
            => workers[i].path \notin DOMAIN store
       /\ (call.pc = "done" /\ Len(workers) = 1)
            => IsErrOfKind(call.ret, "ChecksumMismatch")

(***************************************************************************)
(* C9: a download worker whose 3 attempts all failed in the transport (a   *)
(* non-2xx answer to the GET, a broken body stream) ends with that         *)
(* Download error, and the pull returns an error, never success.           *)
(***************************************************************************)
C9_TransportFailuresAreReported ==
  \A i \in DOMAIN workers :
    (call.op = "pull" /\ TransportFailedThrice(workers[i]))
    => /\ IsErrOfKind(workers[i].result, LastFailure(workers[i]))
       /\ call.pc = "done" => IsErr(call.ret)

(***************************************************************************)
(* C10: an upload worker whose 3 PUTs all failed ends with the error of    *)
(* the last PUT, whether or not the response asks for a verify, and the    *)
(* push returns an error, never success.                                   *)
(***************************************************************************)
C10_FailedUploadIsReported ==
  \A i \in DOMAIN workers :
    (call.op = "push" /\ UploadFailedThrice(workers[i]))
    => /\ IsErrOfKind(workers[i].result, LastFailure(workers[i]))
       /\ call.pc = "done" => IsErr(call.ret)


\* worker w was offered a download, found its pointer, and its last GET was
\* answered in full by the bytes asked for
Downloaded(w) ==
  /\ IsOk(w.result)
  /\ LogOf(w, "GET") # {}
  /\ Cardinality(LogOf(w, "failed")) < Cardinality(LogOf(w, "GET"))

(***************************************************************************)
(* C11: pull and push return only when every worker of the batch has       *)
(* finished; the call returns an error exactly when some worker returned   *)
(* one, and it is the first error in the order the workers finished; a     *)
(* worker that fails stops no other: every object of the response has been *)
(* handled, and an object downloaded by a worker of its own is in the      *)
(* store.                                                                  *)
(***************************************************************************)
C11_ReturnsFirstWorkerError ==
  /\ call.pc = "workers" => call.ret = None
  /\ (call.pc = "done" /\ call.response # <<>>)
     => /\ Len(workers) = Len(call.response)
        /\ Len(results) = Len(workers)
        /\ \A j \in DOMAIN workers :
             /\ workers[j].pc = "done"
             /\ workers[j].result # None
             /\ workers[j].n >= 1
             /\ \E k \in DOMAIN results : results[k] = workers[j].result[1]
        /\ IsErr(call.ret) <=> \E j \in DOMAIN workers : IsErr(workers[j].result)
        /\ IsOk(call.ret) \/ IsErr(call.ret)
        /\ IsErr(call.ret)
           => \E k \in DOMAIN results :
                /\ results[k] = call.ret[1]
                /\ \A m \in 1..(k - 1) : results[m].ok
        /\ \A j \in DOMAIN workers :
             ( /\ call.op = "pull"
               /\ Downloaded(workers[j])
               /\ \A m \in DOMAIN workers : m # j => workers[m].path # workers[j].path )
             => /\ workers[j].path \in DOMAIN store
                /\ Sha256(store[workers[j].path]) = workers[j].pointer[1].hash

\* a pull has returned the error of its first worker, and the second worker
\* has downloaded its object all the same
C11_Witness ==
  /\ call.op = "pull" /\ call.pc = "done"
  /\ Len(workers) = 2
  /\ IsErr(call.ret)
  /\ IsErr(workers[1].result)
  /\ results[1] = workers[1].result[1]
  /\ Downloaded(workers[2])
  /\ workers[2].path \in DOMAIN store


\* the workers that have started and not finished
Running == {j \in DOMAIN workers : workers[j].pc \notin {"queued", "done"}}

(***************************************************************************)
(* C12: at every moment of a pull or push at most concurrency_limit        *)
(* workers have started and not finished; with the limit 1 a worker starts *)
(* only when all the workers before it have finished.                      *)
(***************************************************************************)
C12_WorkersWithinLimit ==
  /\ Cardinality(Running) <= call.limit
  /\ call.limit = 1
     => \A i, j \in DOMAIN workers :
          (i < j /\ workers[j].pc # "queued") => workers[i].pc = "done"

\* two workers are under way at once under the limit 2
C12_Witness ==
  /\ call.limit = 2
  /\ Cardinality(Running) = 2


\* both processes are storing the same object and each found the file absent
\* when it looked
BothSawAbsent ==
  /\ callers[1].pointer = callers[2].pointer
  /\ callers[1].bytes = callers[2].bytes
  /\ \A c \in DOMAIN callers :
       \/ callers[c].pc \in {"open", "write"}
       \/ callers[c].pc = "done" /\ callers[c].ret # Ok("skipped")

(***************************************************************************)
(* C13: when two store_if_absent calls for one pointer both see the file   *)
(* absent, each of them returns success, also the late one whose exclusive *)
(* create finds the file there, and the file then holds the bytes of the   *)
(* first writer.                                                           *)
(***************************************************************************)
C13_LateCallerSucceeds ==
  BothSawAbsent
  => /\ \A c \in DOMAIN callers : callers[c].pc = "done" => callers[c].ret.ok
     /\ (\A c \in DOMAIN callers : callers[c].pc = "done")
        => /\ FanOutPath(callers[1].pointer.hash) \in DOMAIN store
           /\ store[FanOutPath(callers[1].pointer.hash)] = callers[1].bytes


(***************************************************************************)
(* C14: store_if_absent, called by clean one call after another, succeeds  *)
(* each time; after it the fan-out path of the pointer holds the bytes,    *)
(* no other file has appeared or changed, and a call that finds the file   *)
(* there (the second call with the same pointer and bytes) writes nothing. *)
(***************************************************************************)
C14_StoreTwiceIsStoreOnce ==
  [][ filter'.op = "clean"
      => LET p == FanOutPath(Sha256(filter'.input))
         IN /\ filter'.ret.ok
            /\ DOMAIN store' = DOMAIN store \cup {p}
            /\ store'[p] = filter'.input
            /\ \A q \in DOMAIN store : store'[q] = store[q]
            /\ filter'.skipped <=> p \in DOMAIN store
            /\ p \in DOMAIN store => store' = store ]_vars

\* a second clean of the same bytes has found the object there and skipped
C14_Witness ==
  /\ filter.op = "clean"
  /\ filter.skipped
  /\ filter.ret.ok
  /\ store[FanOutPath(Sha256(filter.input))] = filter.input


(***************************************************************************)
(* C15: a file under lfs/objects whose contents match the hash in its path *)
(* is neither deleted nor truncated nor rewritten by any later step, also  *)
(* not by a pull whose pointer list names that object, whether its         *)
(* download succeeds or fails.                                             *)
(***************************************************************************)
C15_ValidFilesAreKept ==
  [][ \A p \in DOMAIN store :
        p = FanOutPath(Sha256(store[p]))
        => p \in DOMAIN store' /\ store'[p] = store[p] ]_vars


\* the entries of tree t that are blobs in the object database whose contents
\* parse as pointer p while p's object file is absent from store st
MissingEntries(t, st, p) ==
  {i \in DOMAIN t :
     /\ t[i].kind = "blob"
     /\ t[i].blob # None
     /\ from_str_short(t[i].blob[1]) = Ok(p)
     /\ FanOutPath(p.hash) \notin DOMAIN st}

\* the pointers that the blobs of tree t parse as
PointersIn(t) ==
  {from_str_short(t[i].blob[1]).val :
     i \in {j \in DOMAIN t : /\ t[j].kind = "blob"
                             /\ t[j].blob # None
                             /\ from_str_short(t[j].blob[1]).ok}}

(***************************************************************************)
(* C16: find_tree_missing(tree) succeeds, also on a tree with entries      *)
(* whose blob the object database lacks; it returns a pointer p as often   *)
(* as the tree has, at any depth, a blob that parses (parse_short) as p    *)
(* while p's object file does not exist, and no other pointer; it changes  *)
(* no state.                                                               *)
(***************************************************************************)
C16_MissingAreThePointerBlobsWithoutObject ==
  [][ ext'.op = "find_tree_missing"
      => /\ ext'.ret.ok
         /\ \A p \in PointersIn(tree) \cup {ext'.ret.val[k] : k \in DOMAIN ext'.ret.val} :
              Cardinality({k \in DOMAIN ext'.ret.val : ext'.ret.val[k] = p})
                = Cardinality(MissingEntries(tree, store, p))
         /\ store' = store
         /\ tree' = tree
         /\ commits' = commits ]_vars

\* the same pointer has been reported twice, once for a blob in a
\* subdirectory
C16_Witness ==
  /\ ext.op = "find_tree_missing"
  /\ Len(ext.ret.val) = 2
  /\ ext.ret.val[1] = ext.ret.val[2]
  /\ \E i \in DOMAIN tree : tree[i].dir = "sub/"
RECURSIVE AncestorsWithin(_, _)
\* the commits within n parent links of a commit of S, those of S included
AncestorsWithin(S, n) ==
  IF n = 0 THEN S
  ELSE AncestorsWithin(S \cup UNION {commits[c].parents : c \in S}, n - 1)

\* the commits reachable from c
ReachableFrom(c) == AncestorsWithin({c}, Len(commits))

\* what Pointer::from_str makes of each blob of the repository
ParsesAs == [b \in PushBlobs |-> from_str(b)]

\* the blobs, present in the object database, in the tree of commit c
BlobsOf(c) ==
  {commits[c].tree[i].blob[1] :
     i \in {j \in DOMAIN commits[c].tree :
              commits[c].tree[j].kind = "blob" /\ commits[c].tree[j].blob # None}}

\* C17: find_to_push(local, upstream) returns exactly the distinct pointers
\* p such that some blob of 120 <= length < 220 bytes, in the tree of a commit
\* reachable from local but not from upstream, parses as p; each pointer is
\* returned once, and no blob outside the window gives a pointer
C17_ToPushAreThePointersOfTheRange ==
  ext.op = "find_to_push" =>
    LET range == ReachableFrom(ext.local) \ ReachableFrom(ext.upstream)
        inWindow == {b \in UNION {BlobsOf(c) : c \in range} :
                       Len(b) >= 120 /\ Len(b) < 220}
        expected == {ParsesAs[b].val : b \in {x \in inWindow : ParsesAs[x].ok}}
    IN /\ ext.ret.ok
       /\ {ext.ret.val[k] : k \in DOMAIN ext.ret.val} = expected
       /\ \A j, k \in DOMAIN ext.ret.val : ext.ret.val[j] = ext.ret.val[k] => j = k

\* one pointer was found in two commits of the range and at two paths of a
\* tree, whose blobs of 119 and of 220 bytes parse as another pointer
C17_Witness ==
  /\ ext.op = "find_to_push"
  /\ Len(ext.ret.val) = 1
  /\ LET range == ReachableFrom(ext.local) \ ReachableFrom(ext.upstream)
     IN /\ \E c, d \in range :
             /\ c # d
             /\ \E b \in BlobsOf(c) : ParsesAs[b] = Ok(ext.ret.val[1])
             /\ \E b \in BlobsOf(d) : ParsesAs[b] = Ok(ext.ret.val[1])
        /\ \E c \in range :
             /\ \E i, j \in DOMAIN commits[c].tree :
                  /\ i # j
                  /\ commits[c].tree[i].kind = "blob"
                  /\ commits[c].tree[i] # commits[c].tree[j]
                  /\ commits[c].tree[i].blob = commits[c].tree[j].blob
                  /\ commits[c].tree[i].blob # None
                  /\ ParsesAs[commits[c].tree[i].blob[1]] = Ok(ext.ret.val[1])
             /\ \E b \in BlobsOf(c) :
                  Len(b) < 120 /\ ParsesAs[b].ok /\ ParsesAs[b].val # ext.ret.val[1]
             /\ \E b \in BlobsOf(c) :
                  Len(b) >= 220 /\ ParsesAs[b].ok /\ ParsesAs[b].val # ext.ret.val[1]

\* the pointers of the blobs in the trees of the commits of S
PointersReachable(S) ==
  {ParsesAs[b].val : b \in {x \in UNION {BlobsOf(c) : c \in S} : ParsesAs[x].ok}}

\* C18: find_to_push(local, upstream) returns no pointer whose blob is in
\* the tree of a commit reachable from upstream, and returns nothing when
\* local is upstream or an ancestor of it
C18_ToPushLeavesOutWhatUpstreamHas ==
  ext.op = "find_to_push" =>
    /\ \A k \in DOMAIN ext.ret.val :
         ext.ret.val[k] \notin PointersReachable(ReachableFrom(ext.upstream))
    /\ ext.local \in ReachableFrom(ext.upstream) => ext.ret.val = <<>>

\* C19: with extensions configured, check(path) is true exactly when the
\* path's extension is in the set, whatever the size limit; without them a
\* configured size limit decides (size <= limit); with neither, no path
\* participates
C19_ExtensionsAreAuthoritative ==
  [][\A p \in CheckPaths, metadata \in {None} \cup {Some(n) : n \in 0..MaxFileSize} :
       Check(p, metadata) =>
         IF config.exts # None
         THEN checked'.ret = Ok(\E e \in config.exts[1] : extension(p) = Some(e))
         ELSE IF config.max_file_size # None
         THEN metadata # None => checked'.ret = Ok(metadata[1] <= config.max_file_size[1])
         ELSE checked'.ret = Ok(FALSE)]_vars


\* the response object carries neither actions nor an error
NothingToDo(object) == object.error = None /\ object.actions = None

\* C20: the worker of a response object without actions and without error
\* returns Ok(()) in the step that starts it, with no progress event and no
\* GET, PUT or verify request, and the object store stays as it is
C20_ObjectWithoutActionsIsSkipped ==
  [][\A i \in DOMAIN workers' :
       (call'.pc = "workers" /\ NothingToDo(call'.response[i])
          /\ workers'[i].pc # "queued") =>
         /\ workers'[i].pc = "done"
         /\ IsOk(workers'[i].result)
         /\ workers'[i].log = <<>>
         /\ (i \in DOMAIN workers /\ workers[i].pc = "queued") =>
              store' = store /\ trace' = trace]_vars

\* a push with a progress callback, over a store that holds objects, has
\* skipped an object without actions and uploaded another
C20_Witness ==
  /\ call.op = "push" /\ call.pc = "workers" /\ call.progress
  /\ store # EmptyStore
  /\ \E i, j \in DOMAIN workers :
       /\ NothingToDo(call.response[i])
       /\ workers[i].pc = "done"
       /\ LogOf(workers[j], "PUT") # {}


\* C21: the batch step fails with AccessDenied on 401 and 403, NotFound on
\* 404, Batch("<status> - <body>") on any other status outside 200..299 and
\* EmptyResponse on a 2xx answer without objects; the call then returns that
\* error with no worker made, nothing sent or reported after the batch
\* request, and the object store as it was
C21_BatchFailureEndsTheCall ==
  [][call.pc = "batch" /\ call'.pc # "batch" =>
       LET status == call'.batch_status[1]
           failure == IF status \in {401, 403} THEN Some(RemoteError("AccessDenied", <<>>))
                      ELSE IF status = 404 THEN Some(RemoteError("NotFound", <<>>))
                      ELSE IF status < 200 \/ status > 299
                        THEN Some(RemoteError("Batch", <<status, " - ", "body">>))
                      ELSE IF call'.response = <<>>
                        THEN Some(RemoteError("EmptyResponse", <<>>))
                      ELSE None
       IN /\ call'.batch_status # None
          /\ IF failure = None
             THEN call'.pc = "workers" /\ call'.ret = None
             ELSE /\ call'.pc = "done"
                  /\ call'.ret = Some(Err(failure[1]))
                  /\ workers' = <<>>
                  /\ results' = <<>>
                  /\ trace' = trace
                  /\ store' = store]_vars

\* a push over a store that holds objects was refused with status 403
C21_Witness ==
  /\ call.op = "push" /\ call.pc = "done"
  /\ call.batch_status = Some(403)
  /\ IsErrOfKind(call.ret, "AccessDenied")
  /\ store # EmptyStore
  /\ workers = <<>>


\* the places of the progress events of a phase in the worker's log
EventsOf(w, phase) ==
  {k \in DOMAIN w.log : w.log[k].kind = "event" /\ w.log[k].phase = phase}

\* C22: in a pull with a progress callback, the worker of a response object
\* without error and with a download action emits exactly one Download
\* event, before its first GET; the worker of any other object emits none;
\* no Upload or Verify event is emitted
C22_OneDownloadEventBeforeTheGet ==
  call.op = "pull" /\ call.progress =>
    \A i \in DOMAIN workers :
      LET w == workers[i]
          object == call.response[i]
          offered == /\ object.error = None
                     /\ object.actions # None
                     /\ object.actions[1].download # None
      IN /\ EventsOf(w, "Upload") = {} /\ EventsOf(w, "Verify") = {}
         /\ w.pc = "queued" => w.log = <<>>
         /\ w.pc # "queued" =>
              /\ Cardinality(EventsOf(w, "Download")) = IF offered THEN 1 ELSE 0
              /\ \A k \in EventsOf(w, "Download"), g \in LogOf(w, "GET") : k < g

\* a pull with a callback: one worker has reported its object once and sent
\* three GETs, another, whose object has no download action, reported nothing
C22_Witness ==
  /\ call.op = "pull" /\ call.progress
  /\ \E i, j \in DOMAIN workers :
       /\ Cardinality(EventsOf(workers[i], "Download")) = 1
       /\ Cardinality(LogOf(workers[i], "GET")) = 3
       /\ workers[j].pc = "done"
       /\ call.response[j].actions # None
       /\ EventsOf(workers[j], "Download") = {}


\* C23: get_lfs_blob_content returns the blob's bytes when the blob is no
\* pointer, the contents of the object file when it is a pointer and the
\* file is there, and a NotFound error when the file is not there; it never
\* returns the text of a pointer blob, and it changes nothing
C23_BlobContentIsResolved ==
  [][ext'.op = "get_lfs_blob_content" /\ ext.op = "none" =>
       LET blob == tree[1].blob[1]
           pointer == from_str_short(blob)
       IN /\ IF ~is_pointer(blob) THEN ext'.ret = Ok(blob)
             ELSE IF FanOutPath(pointer.val.hash) \in DOMAIN store
               THEN ext'.ret = Ok(store[FanOutPath(pointer.val.hash)])
             ELSE ~ext'.ret.ok /\ ext'.ret.err.code = "NotFound"
          /\ is_pointer(blob) /\ ext'.ret.ok => ext'.ret.val # blob
          /\ UNCHANGED <<codec, filterVars, commits, config, checked, engineVars>>]_vars

\* the blob was a pointer text longer than the canonical one, and the whole
\* object file was returned for it
C23_Witness ==
  /\ ext.op = "get_lfs_blob_content"
  /\ is_pointer(tree[1].blob[1])
  /\ Len(tree[1].blob[1]) = 220
  /\ ext.ret = Ok(<<0, 255>>)


\* the line of text that starts at place start, without its "\n"
LineFrom(text, start) ==
  LET nls == {k \in start..Len(text) : text[k] = NL}
      end == IF nls = {} THEN Len(text) + 1
             ELSE CHOOSE k \in nls : \A j \in nls : k <= j
  IN SubSeq(text, start, end - 1)

\* text is the version line and an oid line of 64 lowercase hex characters,
\* each ended by "\n"
IsVersionAndOid(text) ==
  /\ Len(text) = 119
  /\ SubSeq(text, 1, 42) = VERSION
  /\ text[43] = NL
  /\ SubSeq(text, 44, 54) = OID_PREFIX
  /\ \A k \in 55..118 : IsLowerHexChar(text[k])
  /\ text[119] = NL

\* text is "size ", the decimal digits of a number below 10^19, and "\n"
IsSizeLine(text) ==
  /\ Len(text) >= 7
  /\ Len(text) <= 25
  /\ SubSeq(text, 1, 5) = SIZE_PREFIX
  /\ \A k \in 6..(Len(text) - 1) : IsDigit(text[k])
  /\ text[Len(text)] = NL

\* text matches the grammar of the pointer format, the size line present,
\* left out, or blank
MatchesGrammar(text) ==
  /\ Len(text) >= 119
  /\ IsVersionAndOid(SubSeq(text, 1, 119))
  /\ Len(text) > 119 =>
       IsSizeLine(Drop(text, 119)) \/ Drop(text, 119) = <<NL>>

\* C24: parse succeeds exactly on the texts of the grammar: the version
\* line, "oid sha256:" with 64 lowercase hex characters, and "size" with a
\* decimal, each ended by "\n", the size line present or left out
C24_ParseAcceptsTheGrammarOnly ==
  codec.pc = "parsed" /\ codec.pointer = NoPointer =>
    (codec.parsed.ok <=> MatchesGrammar(codec.text))

\* C25: after a version and an oid line, end of input or a blank line gives
\* size 0; any other line that is not "size " and a decimal fails, with
\* InvalidSpec when it does not start with "size " and InvalidSize otherwise
C25_OnlyTheSizeLineMayBeLeftOut ==
  (/\ codec.pc = "parsed" /\ codec.pointer = NoPointer
   /\ Len(codec.text) >= 119
   /\ IsVersionAndOid(SubSeq(codec.text, 1, 119))
   /\ \A k \in DOMAIN codec.text : codec.text[k] # CR) =>
    LET line == LineFrom(codec.text, 120)
        digits == Drop(line, 5)
    IN IF line = <<>>
       THEN codec.parsed.ok /\ codec.parsed.val.size = 0
       ELSE IF ~StartsWith(line, SIZE_PREFIX)
       THEN ~codec.parsed.ok /\ codec.parsed.err.kind = "InvalidSpec"
       ELSE IF digits = <<>> \/ \E k \in DOMAIN digits : ~IsDigit(digits[k])
       THEN ~codec.parsed.ok /\ codec.parsed.err.kind = "InvalidSize"
       ELSE TRUE

\* C26: a first line that is not the version line, or a second line that
\* does not start with "oid sha256:", fails with InvalidSpec; a hex segment
\* of n # 64 characters fails with InvalidHashLength(n); one of 64 characters
\* that is not hex fails with the hex-decode error
C26_ParseFailuresAreClassified ==
  (/\ codec.pc = "parsed" /\ codec.pointer = NoPointer
   /\ \A k \in DOMAIN codec.text : codec.text[k] # CR) =>
    LET first == LineFrom(codec.text, 1)
        second == LineFrom(codec.text, Len(first) + 2)
        segment == Drop(second, 11)
    IN IF first # VERSION \/ ~StartsWith(second, OID_PREFIX)
       THEN ~codec.parsed.ok /\ codec.parsed.err.kind = "InvalidSpec"
       ELSE IF Len(segment) # 64
       THEN /\ ~codec.parsed.ok
            /\ codec.parsed.err.kind = "InvalidHashLength"
            /\ codec.parsed.err.n = Len(segment)
       ELSE IF \E k \in DOMAIN segment : ~IsHexChar(segment[k])
       THEN ~codec.parsed.ok /\ codec.parsed.err.kind = "Hex"
       ELSE TRUE


\* C27: adding a file whose path does not participate (no attribute tags
\* it, and it has no path or check(path) is false) writes the file's bytes
\* as the blob and leaves the object store as it was: empty when it was
\* empty
C27_FilesOutsideLfsAreStoredAsTheyAre ==
  [][\A p \in {None} \cup {Some(q) : q \in CheckPaths}, bytes \in Blobs :
       \A metadata \in {None, Some(Len(bytes))} :
         (/\ Add(p, None, bytes, metadata)
          /\ (p = None \/ check(config, p[1], metadata) = Ok(FALSE))) =>
           /\ filter'.op = "passthrough"
           /\ filter'.out = bytes
           /\ store' = store
           /\ cleaned' = cleaned]_vars

\* with the extension "bin" configured, a file without that extension was
\* added as it is while the object store was empty
C27_Witness ==
  /\ config.exts = Some({<<"b", "i", "n">>})
  /\ checked.pc = "done"
  /\ checked.path = <<"a", ".", "t", "x", "t">>
  /\ checked.ret = Ok(FALSE)
  /\ filter.op = "passthrough"
  /\ filter.out = BlobText
  /\ store = EmptyStore


\* the attempts of a worker: the places of its GETs or PUTs in its log
Attempts(w, kind) == LogOf(w, kind)

\* C28: for one response object a worker sends at most 3 GETs (pull) or at
\* most 3 PUTs (push); an attempt after the first follows the failure of the
\* one before it, and no attempt follows one that did not fail
C28_AtMostThreeAttemptsEachAfterAFailure ==
  \A i \in DOMAIN workers : \A kind \in {"GET", "PUT"} :
    LET w == workers[i]
        a == Attempts(w, kind)
    IN /\ Cardinality(a) <= 3
       /\ a # {} => call.op = (IF kind = "GET" THEN "pull" ELSE "push")
       /\ \A k \in a :
            /\ (\E j \in a : j < k) => w.log[k - 1].kind = "failed"
            /\ (\E j \in a : j > k) => w.log[k + 1].kind = "failed"
       /\ a # {} => Cardinality(LogOf(w, "failed")) <= Cardinality(a)
       /\ (w.pc = "done" /\ w.result = Some(Ok("unit")) /\ a # {}
             /\ Cardinality(LogOf(w, "failed")) < 3) =>
            Cardinality(LogOf(w, "failed")) = Cardinality(a) - 1

\* a download that failed twice and succeeded at the third GET: the object
\* is in the store and no fourth GET was sent
C28_Witness ==
  \E i \in DOMAIN workers :
    LET w == workers[i]
    IN /\ w.pc = "done" /\ w.result = Some(Ok("unit"))
       /\ Cardinality(LogOf(w, "GET")) = 3
       /\ Cardinality(LogOf(w, "failed")) = 2
       /\ w.path \in DOMAIN store
       /\ Sha256(store[w.path]) = w.pointer[1].hash


\* the response object names none of the pointers of the call
Unasked(object) ==
  \A k \in DOMAIN call.pointers : hex(call.pointers[k].hash) # object.oid

\* the worker of object i is polled for the first time in this step
FirstPoll(i) ==
  /\ call.pc = "workers" /\ call'.pc = "workers"
  /\ i \in DOMAIN workers /\ i \in DOMAIN workers'
  /\ workers[i].pc = "queued" /\ workers'[i].pc # "queued"

\* C29: a response object that carries an error fails with
\* ObjectError("<code> - <message>") before anything else: no progress
\* event, no request, no file operation, with or without actions; an
\* object that names no input pointer and gets as far as the lookup fails
\* with NotFound after its progress event, before any directory or file is
\* created and before any request
C29_WorkerStepsRunInOrder ==
  [][\A i \in 1..MaxPointers :
       FirstPoll(i) =>
         LET object == call.response[i]
             w == workers'[i]
         IN /\ object.error # None =>
                 /\ w.pc = "done"
                 /\ w.result = Some(Err(RemoteError("ObjectError",
                                   <<object.error[1].code, " - ",
                                     object.error[1].message>>)))
                 /\ w.log = <<>>
                 /\ store' = store
            /\ (/\ object.error = None /\ object.actions # None
                /\ call.op = "pull" => object.actions[1].download # None
                /\ Unasked(object)) =>
                 /\ w.pc = "done"
                 /\ w.result = Some(Err(RemoteError("NotFound", <<>>)))
                 /\ EventsOf(w, IF call.op = "pull" THEN "Download" ELSE "Upload")
                      = (IF call.progress THEN {1} ELSE {})
                 /\ Len(w.log) = (IF call.progress THEN 1 ELSE 0)
                 /\ store' = store]_vars

\* with a callback set, the first object of the response carried an error
\* beside its actions and the second was not asked for: the first worker
\* failed with ObjectError and reported nothing, the second reported its
\* object and failed with NotFound, and the store holds what it held
C29_Witness ==
  /\ call.pc = "workers" /\ call.progress
  /\ Len(call.response) = 2 /\ Len(workers) = 2
  /\ call.response[1].error # None /\ call.response[1].actions # None
  /\ Unasked(call.response[2])
  /\ workers[1].pc = "done" /\ workers[1].log = <<>>
  /\ IsErrOfKind(workers[1].result, "ObjectError")
  /\ workers[2].pc = "done" /\ Len(workers[2].log) = 1
  /\ IsErrOfKind(workers[2].result, "NotFound")
  /\ \A p \in DOMAIN store : p # path(AlienPointer)


\* C30: in a push with a progress callback, an Upload event is emitted only
\* for an object that is uploaded (actions.upload present) and before its
\* first PUT; a Verify event is emitted exactly once for each object with
\* actions.verify, before the verify request and after the object's Upload
\* event; no Download event is emitted
C30_UploadEventsFollowTheWork ==
  (call.op = "push" /\ call.pc = "workers" /\ call.progress) =>
    \A i \in DOMAIN workers :
      LET w == workers[i]
          object == call.response[i]
          uploads == EventsOf(w, "Upload")
          verifies == EventsOf(w, "Verify")
      IN /\ EventsOf(w, "Download") = {}
         /\ uploads # {} =>
              /\ object.actions # None
              /\ object.actions[1].upload # None
         /\ \A k \in LogOf(w, "PUT") : \E e \in uploads : e < k
         /\ Cardinality(verifies) <= 1
         /\ \A v \in verifies :
              /\ object.actions # None /\ object.actions[1].verify # None
              /\ \A k \in LogOf(w, "verify") : v < k
              /\ \A e \in uploads : e < v
         /\ LogOf(w, "verify") # {} => verifies # {}

\* the progress events of the call: <<worker, place in its log>>
Events ==
  UNION {{<<i, k>> : k \in {l \in DOMAIN workers[i].log :
                                  workers[i].log[l].kind = "event"}} :
           i \in DOMAIN workers}

\* C31: every progress event of a pull or push has objects_handled <
\* total_objects and bytes_handled + next_object_size <= total_bytes, the
\* totals being the count and the summed sizes of the response objects; no
\* two events of one phase carry the same objects_handled; a worker's
\* counters do not decrease from its Upload event to its Verify event
C31_ProgressCountersStayWithinTheTotals ==
  call.pc = "workers" =>
    /\ \A ik \in Events :
         LET e == workers[ik[1]].log[ik[2]]
         IN /\ e.total_objects = Len(call.response)
            /\ e.total_bytes = SumSizes(call.response, Len(call.response))
            /\ e.objects_handled < e.total_objects
            /\ e.bytes_handled + e.next_object_size <= e.total_bytes
            /\ e.next_object_size = call.response[ik[1]].size
    /\ \A ik, jl \in Events :
         LET e == workers[ik[1]].log[ik[2]]
             f == workers[jl[1]].log[jl[2]]
         IN /\ (ik # jl /\ e.phase = f.phase) =>
                 e.objects_handled # f.objects_handled
            /\ (ik[1] = jl[1] /\ e.phase = "Upload" /\ f.phase = "Verify") =>
                 /\ ik[2] < jl[2]
                 /\ e.objects_handled <= f.objects_handled
                 /\ e.bytes_handled <= f.bytes_handled

\* two upload workers in flight at once, each with its Upload and its
\* Verify event, the second one's counters above those of the first
C31_Witness ==
  /\ call.op = "push" /\ call.pc = "workers" /\ call.limit = 2
  /\ Len(workers) = 2
  /\ \A i \in {1, 2} :
       /\ workers[i].pc = "verify"
       /\ EventsOf(workers[i], "Upload") # {}
       /\ EventsOf(workers[i], "Verify") # {}
  /\ \E k \in EventsOf(workers[2], "Verify") :
       /\ workers[2].log[k].objects_handled = 1
       /\ workers[2].log[k].bytes_handled > 0

\* the batch requests the call has sent
BatchRequests == {k \in DOMAIN trace : trace[k].kind = "batch"}

\* C32: pull sends exactly one batch request with operation "download" and
\* push exactly one with operation "upload"; the request carries transfers
\* ["basic"], hash_algo "sha256" and one {oid: hex, size} entry per input
\* pointer, in input order; with an empty pointer list no request is sent
\* and the call returns success
C32_OneBatchRequestPerCall ==
  call.pc # "idle" =>
    IF call.pointers = <<>>
    THEN /\ trace = <<>>
         /\ workers = <<>>
         /\ call.pc = "done"
         /\ call.ret = Some(Ok("unit"))
    ELSE /\ BatchRequests = {1}
         /\ Len(trace) = 1
         /\ trace[1].operation = (IF call.op = "pull" THEN "download"
                                  ELSE "upload")
         /\ trace[1].transfers = <<"basic">>
         /\ trace[1].hash_algo = Some("sha256")
         /\ Len(trace[1].objects) = Len(call.pointers)
         /\ \A k \in DOMAIN call.pointers :
              /\ IsHexOf(trace[1].objects[k].oid, call.pointers[k].hash)
              /\ trace[1].objects[k].size = call.pointers[k].size

\* a push of two different pointers has returned: one request went out, its
\* second object is the second pointer
C32_Witness ==
  /\ call.op = "push" /\ call.pc = "done"
  /\ Len(call.pointers) = 2
  /\ call.pointers[1] # call.pointers[2]
  /\ BatchRequests = {1}
  /\ trace[1].operation = "upload"
  /\ trace[1].objects[2].oid = hex(call.pointers[2].hash)
  /\ trace[1].objects[1].oid # trace[1].objects[2].oid

\* the answer to the verify request of worker i arrives in this step
VerifyAnswered(i) ==
  /\ call.op = "push" /\ call.pc = "workers" /\ call'.pc = "workers"
  /\ i \in DOMAIN workers /\ i \in DOMAIN workers'
  /\ workers[i].pc = "verify" /\ workers'[i].pc = "done"

\* C33: the worker of an object with actions.verify sends one verify POST
\* with {oid, size} of its pointer; a non-2xx answer to it, whatever the
\* status, makes the worker fail with Verify, and the request is not sent
\* again
C33_VerifyFailsWithVerify ==
  [][\A i \in 1..MaxPointers :
       VerifyAnswered(i) =>
         LET w == workers'[i]
             posts == LogOf(w, "verify")
         IN /\ Cardinality(posts) = 1
            /\ \A k \in posts :
                 /\ k = Len(w.log)
                 /\ w.log[k].body = [oid |-> hex(w.pointer[1].hash),
                                     size |-> w.pointer[1].size]
            /\ \/ w.result = Some(Ok("unit"))
               \/ IsErrOfKind(w.result, "Verify")]_vars

\* the requests the call has sent so far: the batch request and those of
\* the workers
Requests ==
  {trace[k] : k \in BatchRequests}
    \cup UNION {{workers[i].log[k] :
                   k \in {l \in DOMAIN workers[i].log :
                            workers[i].log[l].kind \in {"GET", "PUT", "verify"}}} :
                i \in DOMAIN workers}

\* C34: every batch request and every verify request carries the media type
\* application/vnd.git-lfs+json in its Accept and in its Content-Type
\* header, and every request of the engine carries a User-Agent header
C34_RequestsCarryTheMediaType ==
  \A r \in Requests :
    /\ r.user_agent
    /\ r.kind \in {"batch", "verify"} =>
         /\ r.accept = Some(MEDIA_TYPE)
         /\ r.content_type = Some(MEDIA_TYPE)

\* the file of pointer p is there and does not hold the object: what a
\* download leaves behind when it is stopped before the body has arrived
PartialFile(p) ==
  /\ path(p) \in DOMAIN store
  /\ Sha256(store[path(p)]) # p.hash

\* C35: a partial object file left behind by a download that was stopped is
\* healed by the standard flow: find_tree_missing still reports the pointer
\* of a tree that holds it, and smudge never hands the partial bytes out as
\* the object's contents
C35_PartialFilesAreHealed ==
  call.pc = "idle" =>
    \A b \in RemoteBlobs :
      LET p == PointerOf(b)
          tree_of_b == <<BlobEntry("", PointerText(b))>>
          loaded == load_object(store, p)
      IN PartialFile(p) =>
           /\ find_tree_missing_lfs_objects(tree_of_b, store) = <<p>>
           /\ (loaded.ret = Ok(TRUE)) => Sha256(loaded.out) = p.hash

\* C36: with concurrency_limit >= 1 and every request and file operation
\* returning, every call of pull and push terminates: whatever state the
\* call is in, it reaches its return
C36_EveryCallReturns ==
  (call.pc \in {"batch", "workers"}) ~> (call.pc = "done")

\* a call with two workers has returned after one of them used up its three
\* attempts
C36_Witness ==
  /\ call.pc = "done" /\ call.ret # None
  /\ Len(workers) = 2
  /\ \A i \in DOMAIN workers : workers[i].pc = "done"
  /\ \E i \in DOMAIN workers : workers[i].attempt = 3

\* C37: every pointer text that write_pointer produces, for any size from 0
\* to 2^64 - 1, has a length of at least 120 and below 220 bytes: the length
\* test of the push side lets it through and from_str_short does not cut it
C37_CanonicalTextsFitTheRoughLength ==
  /\ codec.pc \in {"emitted", "measured"} =>
       /\ Len(codec.text) >= POINTER_ROUGH_LEN_START
       /\ Len(codec.text) < POINTER_ROUGH_LEN_END
       /\ Len(codec.text) = 125 + Len(to_string_u64(codec.pointer.size))
  /\ codec.pc = "measured" =>
       /\ codec.parsed.contains
       /\ codec.parsed.short = codec.text

\* the pointer of size 2^64 - 1 was written and measured: 145 bytes, ending
\* in the 20 digits of usize::MAX
C37_Witness ==
  /\ codec.pc = "measured"
  /\ codec.pointer.size = <<65535, 65535, 65535, 65535>>
  /\ Len(codec.text) = 145
  /\ SubSeq(codec.text, 125, 144) = USIZE_MAX_DIGITS
  /\ codec.parsed.contains

\* the response names one oid twice, each time with a download, and the
\* client runs two futures at a time
TwoDownloadsOfOneObject ==
  /\ call.op = "pull" /\ call.pc \in {"workers", "done"}
  /\ call.limit > 1
  /\ Len(call.response) = 2
  /\ call.response[1].oid = call.response[2].oid
  /\ \A i \in {1, 2} : /\ call.response[i].error = None
                       /\ call.response[i].actions # None
                       /\ call.response[i].actions[1].download # None

\* C38: when the batch response holds two objects with the same oid and
\* concurrency_limit > 1, the two download workers do not interfere: the
\* file a worker is writing is not deleted under it, and when pull returns
\* success the object file is there with contents that match the oid
C38_TwinDownloadsDoNotInterfere ==
  TwoDownloadsOfOneObject =>
    /\ \A i \in DOMAIN workers :
         workers[i].pc \in {"get", "body"} => workers[i].linked
    /\ (call.pc = "done" /\ IsOk(call.ret)) =>
         \A i \in DOMAIN workers :
           /\ workers[i].path \in DOMAIN store
           /\ Sha256(store[workers[i].path]) = workers[i].pointer[1].hash

\* the object has actions and no download among them
WithoutDownload(object) ==
  /\ object.error = None
  /\ object.actions # None
  /\ object.actions[1].download = None

\* C39: in pull, a response object that has actions but no download action
\* makes its worker fail with EmptyResponse before any progress event,
\* request or file change for that object, and pull then returns an error
C39_NoDownloadActionIsEmptyResponse ==
  [][call.op = "pull" =>
       /\ \A i \in 1..MaxPointers :
            (FirstPoll(i) /\ WithoutDownload(call.response[i])) =>
              /\ workers'[i].pc = "done"
              /\ workers'[i].result = Some(Err(RemoteError("EmptyResponse", <<>>)))
              /\ workers'[i].log = <<>>
              /\ workers'[i].path = <<>>
              /\ store' = store
       /\ (/\ call.pc = "workers" /\ call'.pc = "done"
           /\ \E i \in DOMAIN call.response : WithoutDownload(call.response[i])) =>
            IsErr(call'.ret)]_vars

\* a pull with a callback set was answered with an object that offers only
\* an upload: the worker reported nothing, sent nothing, and pull returned
\* EmptyResponse with the store still empty
C39_Witness ==
  /\ call.op = "pull" /\ call.pc = "done" /\ call.progress
  /\ Len(call.response) = 1
  /\ WithoutDownload(call.response[1])
  /\ call.response[1].actions[1].upload # None
  /\ workers[1].pc = "done" /\ workers[1].log = <<>>
  /\ IsErrOfKind(workers[1].result, "EmptyResponse")
  /\ IsErrOfKind(call.ret, "EmptyResponse")
  /\ store = EmptyStore

\* C40: clean applied to bytes that are already a canonical pointer text
\* hands that pointer text back unchanged (or declines, which leaves it to
\* the host unchanged) and stores no new object
C40_CleanKeepsAPointerText ==
  [][\A b \in TestBlobs :
       Clean(PointerText(b)) =>
         /\ \/ filter'.ret = Ok(FALSE)
            \/ filter'.ret = Ok(TRUE) /\ filter'.out = PointerText(b)
         /\ store' = store]_vars

====
